---- MODULE Spec2Model ----
(***************************************************************************)
(* Model of the automaton engine of src/classes/DFA.ts: a DFA over pairs   *)
(* (progress, count) that accepts the strings ending with targetString in  *)
(* which targetChar occurs exactly requiredCount times.                     *)
(*                                                                         *)
(* Strings are sequences of one-character strings (the Symbol type is a    *)
(* string of length 1).  State keys are the character sequences produced   *)
(* by stateToKey, so that key formatting and parsing are real conversions. *)
(***************************************************************************)
EXTENDS Integers, Sequences, FiniteSets, TLC

(***************************************************************************)
(* Bounds of the model.                                                    *)
(***************************************************************************)
MaxTarget == 3
MaxCount == 2
MaxInput == 4

Symbols == {"a", "b", "c"}
Alphabets == {{}, {"a"}, {"a", "b"}}

Undefined == "undefined"

\* the value of a state-typed slot that holds no state
NoState == [undefined |-> TRUE]

VARIABLES
    alphabet,           \* this.alphabet
    targetString,       \* this.targetString
    targetChar,         \* this.targetChar
    requiredCount,      \* this.requiredCount
    states,             \* this.states
    startState,         \* this.startState
    acceptingStateKeys, \* this.acceptingStateKeys
    transitions,        \* this.transitions
    phase,              \* "new" | "built" | "failed": outcome of the constructor
    call,               \* "idle" | "accepts" | "returned" | "thrown" | "crashed"
                        \*   | "trace" | "traced"
    input,              \* the argument of the running accepts / trace call
    pos,                \* number of symbols of input consumed by the loop
    currentState,       \* the local walk cursor of accepts / trace
    result,             \* value returned / error thrown by the last call
    trace,              \* the local array trace of a trace call
    suffixBuffer,       \* this.suffixBuffer (suffix-buffer revision only)
    currentBuffer,      \* the local currentBuffer of accepts / trace (same revision)
    walks,              \* the locals of the calls that run side by side on the engine
    language,           \* useLanguageStore: language
    chain,              \* useLanguageStore: chain
    chainIsForLanguage, \* history: no other language has been stored since the chain was
    location,           \* the route the router shows
    shown,              \* the message shown by the handler that ran last
    traceSteps,         \* ResultsPage: traceSteps
    checkResult,        \* ResultsPage: checkResult
    currentStep         \* ResultsPage: currentStep

\* the calls that can be in progress at the same time
Walkers == {1, 2}

\* a caller that is in no call
IdleWalk ==
    [call |-> "idle", input |-> <<>>, pos |-> 0, currentState |-> NoState,
     currentBuffer |-> <<>>, trace |-> <<>>, result |-> Undefined]

vars == <<alphabet, targetString, targetChar, requiredCount, states, startState,
          acceptingStateKeys, transitions, phase, call, input, pos,
          currentState, result, trace, suffixBuffer, currentBuffer, walks,
          language, chain, chainIsForLanguage, location, shown, traceSteps,
          checkResult, currentStep>>

\* the state of the pages around the engine: the store, the router and the
\* results page
app == <<language, chain, chainIsForLanguage, location, shown, traceSteps,
         checkResult, currentStep>>

engine == <<alphabet, targetString, targetChar, requiredCount, states,
            startState, acceptingStateKeys, transitions, phase>>

(***************************************************************************)
(* JavaScript string primitives used by the class.                         *)
(***************************************************************************)
RECURSIVE SeqsUpTo(_, _)
SeqsUpTo(S, n) ==
    IF n = 0 THEN {<<>>}
    ELSE LET shorter == SeqsUpTo(S, n - 1)
         IN  shorter \cup {Append(w, x) : w \in {v \in shorter : Len(v) = n - 1}, x \in S}

Min(x, y) == IF x <= y THEN x ELSE y
Max(x, y) == IF x >= y THEN x ELSE y

\* str[i], zero-based; out of range gives undefined
CharAt(str, i) == IF i >= 0 /\ i < Len(str) THEN str[i + 1] ELSE Undefined

\* str.slice(from, to), zero-based, negative indices counted from the end
SliceIndex(str, i) == IF i < 0 THEN Max(Len(str) + i, 0) ELSE Min(i, Len(str))
Slice(str, from, to) == SubSeq(str, SliceIndex(str, from) + 1, SliceIndex(str, to))

DigitChar == <<"0", "1", "2", "3", "4", "5", "6", "7", "8", "9">>

\* template-literal formatting of a non-negative integer
RECURSIVE NumberToString(_)
NumberToString(n) ==
    IF n < 10 THEN <<DigitChar[n + 1]>>
    ELSE Append(NumberToString(n \div 10), DigitChar[(n % 10) + 1])

stateToKey(state) ==
    <<"q", "_">> \o NumberToString(state.progress) \o <<"_">> \o NumberToString(state.count)

(***************************************************************************)
(* Construction.                                                           *)
(***************************************************************************)
\* variant: the inner loop stops at requiredCount (no overflow column)
RECURSIVE buildStatesLoopNoOverflow(_, _, _)
buildStatesLoopNoOverflow(progress, count, acc) ==
    IF progress > Len(targetString) THEN acc
    ELSE IF count > requiredCount THEN buildStatesLoopNoOverflow(progress + 1, 0, acc)
    ELSE buildStatesLoopNoOverflow(progress, count + 1,
                                   Append(acc, [progress |-> progress, count |-> count]))

RECURSIVE buildStatesLoop(_, _, _)
buildStatesLoop(progress, count, acc) ==
    IF progress > Len(targetString) THEN acc
    ELSE IF count > requiredCount + 1 THEN buildStatesLoop(progress + 1, 0, acc)
    ELSE buildStatesLoop(progress, count + 1,
                         Append(acc, [progress |-> progress, count |-> count]))

buildStates == buildStatesLoop(0, 0, <<>>)

\* variant: the loop tests only the symbol, not prefix === suffix
RECURSIVE fallbackLoopNoPrefixCheck(_, _, _)
fallbackLoopNoPrefixCheck(progress, len, symbol) ==
    IF len <= 0 THEN 0
    ELSE IF symbol = CharAt(targetString, len - 1)
         THEN len
         ELSE fallbackLoopNoPrefixCheck(progress, len - 1, symbol)

\* for (let len = currentState.progress; len > 0; len--) { ... break; }
RECURSIVE fallbackLoop(_, _, _)
fallbackLoop(progress, len, symbol) ==
    IF len <= 0 THEN 0
    ELSE IF /\ Slice(targetString, 0, len - 1)
                  = Slice(targetString, progress - len + 1, progress)
            /\ symbol = CharAt(targetString, len - 1)
         THEN len
         ELSE fallbackLoop(progress, len - 1, symbol)

\* variant: open-ended counter, no saturation
countUpdateUnclamped(state, symbol) ==
    IF symbol = targetChar THEN state.count + 1 ELSE state.count

\* variant: the counter saturates at requiredCount
countUpdateSaturateEarly(state, symbol) ==
    IF symbol = targetChar /\ state.count < requiredCount
    THEN state.count + 1
    ELSE state.count

\* variant: every symbol is counted
countUpdateAnySymbol(state, symbol) ==
    IF state.count <= requiredCount THEN state.count + 1 ELSE state.count

\* step 1 of calculateNextState: the saturating counter
countUpdate(state, symbol) ==
    IF symbol = targetChar /\ state.count <= requiredCount
    THEN state.count + 1
    ELSE state.count

\* variant: after a full match the progress restarts at 0 or 1
progressUpdateRestart(state, symbol) ==
    IF state.progress = Len(targetString)
    THEN (IF symbol = CharAt(targetString, 0) THEN 1 ELSE 0)
    ELSE IF symbol = CharAt(targetString, state.progress)
         THEN state.progress + 1
         ELSE LET found == fallbackLoop(state.progress, state.progress, symbol)
              IN  IF found = 0 /\ symbol = CharAt(targetString, 0)
                  THEN 1
                  ELSE found

\* variant: on a mismatch the progress restarts at 0 or 1 (no fallback loop)
progressUpdateNoFallback(state, symbol) ==
    IF /\ state.progress < Len(targetString)
       /\ symbol = CharAt(targetString, state.progress)
    THEN state.progress + 1
    ELSE (IF symbol = CharAt(targetString, 0) THEN 1 ELSE 0)

\* variant: the last test compares the symbol with targetChar
progressUpdateTargetCharStarts(state, symbol) ==
    IF /\ state.progress < Len(targetString)
       /\ symbol = CharAt(targetString, state.progress)
    THEN state.progress + 1
    ELSE LET found == fallbackLoop(state.progress, state.progress, symbol)
         IN  IF found = 0 /\ symbol = targetChar
             THEN 1
             ELSE found

\* step 2 of calculateNextState: the new progress
progressUpdate(state, symbol) ==
    IF /\ state.progress < Len(targetString)
       /\ symbol = CharAt(targetString, state.progress)
    THEN state.progress + 1
    ELSE LET found == fallbackLoop(state.progress, state.progress, symbol)
         IN  IF found = 0 /\ symbol = CharAt(targetString, 0)
             THEN 1
             ELSE found

calculateNextState(state, symbol) ==
    [progress |-> progressUpdate(state, symbol),
     count |-> countUpdate(state, symbol)]

\* obj[key] = value on a plain object
Put(obj, key, value) ==
    [k \in DOMAIN obj \cup {key} |-> IF k = key THEN value ELSE obj[k]]

EmptyObject == [k \in {} |-> Undefined]

\* variant: the loop leaves out the last declared state
RECURSIVE buildTransitionsLoopShort(_, _, _)
buildTransitionsLoopShort(sts, i, table) ==
    IF i >= Len(sts) THEN table
    ELSE buildTransitionsLoopShort(sts, i + 1,
            Put(table, stateToKey(sts[i]),
                [symbol \in alphabet |-> calculateNextState(sts[i], symbol)]))

RECURSIVE buildTransitionsLoop(_, _, _)
buildTransitionsLoop(sts, i, table) ==
    IF i > Len(sts) THEN table
    ELSE buildTransitionsLoop(sts, i + 1,
            Put(table, stateToKey(sts[i]),
                [symbol \in alphabet |-> calculateNextState(sts[i], symbol)]))

buildTransitions(sts) == buildTransitionsLoop(sts, 1, EmptyObject)

\* variant: hasFullSuffix is not tested
buildAcceptingStatesAnyProgress(sts) ==
    {stateToKey(sts[i]) : i \in {j \in 1..Len(sts) : sts[j].count = requiredCount}}

\* variant: count >= requiredCount instead of ===
buildAcceptingStatesAtLeast(sts) ==
    {stateToKey(sts[i]) : i \in {j \in 1..Len(sts) :
                                   /\ sts[j].progress = Len(targetString)
                                   /\ sts[j].count >= requiredCount}}

buildAcceptingStates(sts) ==
    {stateToKey(sts[i]) : i \in {j \in 1..Len(sts) :
                                   /\ sts[j].progress = Len(targetString)
                                   /\ sts[j].count = requiredCount}}

\* variant: only targetChar is checked, not the symbols of targetString
ConstructorErrorCharOnly ==
    IF targetChar \notin alphabet THEN "TargetCharNotInAlphabet" ELSE "none"

\* the two checks at the head of the constructor
ConstructorError ==
    IF targetChar \notin alphabet THEN "TargetCharNotInAlphabet"
    ELSE IF \E i \in 1..Len(targetString) : targetString[i] \notin alphabet
         THEN "TargetStringSymbolNotInAlphabet"
         ELSE "none"

\* null in a slot that holds an object, a string, an array of objects
Null == [null |-> TRUE]
NullString == <<"null">>
NullArray == <<Null>>

\* no page is open: the store is empty and no results page is mounted
NoApp ==
    /\ language = Null
    /\ chain = NullString
    /\ chainIsForLanguage = TRUE
    /\ location = "/"
    /\ shown = Undefined
    /\ traceSteps = NullArray
    /\ checkResult = Null
    /\ currentStep = 0

\* the configurations of the specification: non-empty alphabet,
\* requiredCount >= 1, targetChar and targetString over the alphabet
ValidConfig ==
    /\ alphabet # {}
    /\ requiredCount >= 1
    /\ targetChar \in alphabet
    /\ \A i \in 1..Len(targetString) : targetString[i] \in alphabet

Init ==
    /\ alphabet \in Alphabets
    /\ targetString \in SeqsUpTo(Symbols, MaxTarget)
    /\ targetChar \in Symbols
    /\ requiredCount \in 0..MaxCount
    /\ states = <<>>
    /\ startState = NoState
    /\ acceptingStateKeys = {}
    /\ transitions = EmptyObject
    /\ phase = "new"
    /\ call = "idle"
    /\ input = <<>>
    /\ pos = 0
    /\ currentState = NoState
    /\ result = Undefined
    /\ trace = <<>>
    /\ suffixBuffer = EmptyObject
    /\ currentBuffer = <<>>
    /\ walks = [e \in Walkers |-> IdleWalk]
    /\ NoApp

\* variant: the checks run after the states and the table have been built
ConstructFailAfterBuild ==
    /\ phase = "new"
    /\ ConstructorError # "none"
    /\ startState' = [progress |-> 0, count |-> 0]
    /\ states' = buildStates
    /\ transitions' = buildTransitions(states')
    /\ phase' = "failed"
    /\ result' = ConstructorError
    /\ UNCHANGED <<alphabet, targetString, targetChar, requiredCount,
                   acceptingStateKeys, call, input, pos, currentState, trace,
                   suffixBuffer, currentBuffer, walks, app>>

ConstructFail ==
    /\ phase = "new"
    /\ ConstructorError # "none"
    /\ phase' = "failed"
    /\ result' = ConstructorError
    /\ UNCHANGED <<alphabet, targetString, targetChar, requiredCount, states,
                   startState, acceptingStateKeys, transitions, call, input,
                   pos, currentState, trace, suffixBuffer, currentBuffer, walks, app>>

Construct ==
    /\ phase = "new"
    /\ ConstructorError = "none"
    /\ startState' = [progress |-> 0, count |-> 0]
    /\ states' = buildStates
    /\ transitions' = buildTransitions(states')
    /\ acceptingStateKeys' = buildAcceptingStates(states')
    /\ phase' = "built"
    /\ UNCHANGED <<alphabet, targetString, targetChar, requiredCount, call,
                   input, pos, currentState, result, trace, suffixBuffer, currentBuffer, walks, app>>

(***************************************************************************)
(* accepts(input): one action per loop iteration, one for the return.      *)
(***************************************************************************)
AcceptsCall ==
    /\ phase = "built"
    /\ call = "idle"
    /\ \E w \in SeqsUpTo(Symbols, MaxInput) : input' = w
    /\ pos' = 0
    /\ currentState' = startState
    /\ call' = "accepts"
    /\ result' = Undefined
    /\ UNCHANGED <<engine, trace, suffixBuffer, currentBuffer, walks, app>>

HasEntry(key, symbol) ==
    /\ key \in DOMAIN transitions
    /\ symbol \in DOMAIN transitions[key]

\* variant: a symbol outside the alphabet ends the loop as in trace (break)
AcceptsThrowAsBreak ==
    /\ call = "accepts"
    /\ pos < Len(input)
    /\ input[pos + 1] \notin alphabet
    /\ call' = "returned"
    /\ result' = (stateToKey(currentState) \in acceptingStateKeys)
    /\ UNCHANGED <<engine, input, pos, currentState, trace, suffixBuffer, currentBuffer, walks, app>>

AcceptsThrow ==
    /\ call = "accepts"
    /\ pos < Len(input)
    /\ input[pos + 1] \notin alphabet
    /\ call' = "thrown"
    /\ result' = <<"InvalidSymbolError", input[pos + 1]>>
    /\ UNCHANGED <<engine, input, pos, currentState, trace, suffixBuffer, currentBuffer, walks, app>>

\* variant: the loop does not move on to the next symbol
AcceptsStepNoAdvance ==
    /\ call = "accepts"
    /\ pos < Len(input)
    /\ input[pos + 1] \in alphabet
    /\ LET symbol == input[pos + 1]
           stateKey == stateToKey(currentState)
       IN  IF HasEntry(stateKey, symbol)
           THEN /\ currentState' = transitions[stateKey][symbol]
                /\ UNCHANGED <<pos, call, result>>
           ELSE /\ call' = "crashed"
                /\ result' = "TypeError"
                /\ UNCHANGED <<pos, currentState>>
    /\ UNCHANGED <<engine, input, trace, suffixBuffer, currentBuffer, walks, app>>

AcceptsStep ==
    /\ call = "accepts"
    /\ pos < Len(input)
    /\ input[pos + 1] \in alphabet
    /\ LET symbol == input[pos + 1]
           stateKey == stateToKey(currentState)
       IN  IF HasEntry(stateKey, symbol)
           THEN /\ currentState' = transitions[stateKey][symbol]
                /\ pos' = pos + 1
                /\ UNCHANGED <<call, result>>
           ELSE /\ call' = "crashed"
                /\ result' = "TypeError"
                /\ UNCHANGED <<pos, currentState>>
    /\ UNCHANGED <<engine, input, trace, suffixBuffer, currentBuffer, walks, app>>

AcceptsReturn ==
    /\ call = "accepts"
    /\ pos = Len(input)
    /\ result' = (stateToKey(currentState) \in acceptingStateKeys)
    /\ call' = "returned"
    /\ UNCHANGED <<engine, input, pos, currentState, trace, suffixBuffer, currentBuffer, walks, app>>

\* isAcceptingState(state)
isAcceptingState(state) == stateToKey(state) \in acceptingStateKeys

(***************************************************************************)
(* trace(input): the same walk, recording every state it enters.           *)
(***************************************************************************)
TraceCall ==
    /\ phase = "built"
    /\ call = "idle"
    /\ \E w \in SeqsUpTo(Symbols, MaxInput) : input' = w
    /\ pos' = 0
    /\ currentState' = startState
    /\ trace' = <<[state |-> startState, symbol |-> Undefined]>>
    /\ call' = "trace"
    /\ result' = Undefined
    /\ UNCHANGED <<engine, suffixBuffer, currentBuffer, walks, app>>

\* variant: a symbol outside the alphabet is skipped (continue)
TraceBreakAsContinue ==
    /\ call = "trace"
    /\ pos < Len(input)
    /\ input[pos + 1] \notin alphabet
    /\ pos' = pos + 1
    /\ UNCHANGED <<engine, input, call, result, currentState, trace, suffixBuffer, currentBuffer, walks, app>>

\* if (!this.alphabet.has(symbol)) break; ... return trace
TraceBreak ==
    /\ call = "trace"
    /\ pos < Len(input)
    /\ input[pos + 1] \notin alphabet
    /\ call' = "traced"
    /\ result' = trace
    /\ UNCHANGED <<engine, input, pos, currentState, trace, suffixBuffer, currentBuffer, walks, app>>

\* variant: the cursor is not moved, every lookup starts at the same state
TraceStepStale ==
    /\ call = "trace"
    /\ pos < Len(input)
    /\ input[pos + 1] \in alphabet
    /\ LET symbol == input[pos + 1]
           stateKey == stateToKey(currentState)
       IN  IF HasEntry(stateKey, symbol)
           THEN /\ trace' = Append(trace, [state |-> transitions[stateKey][symbol],
                                           symbol |-> symbol])
                /\ pos' = pos + 1
                /\ UNCHANGED <<call, result, currentState>>
           ELSE /\ call' = "crashed"
                /\ result' = "TypeError"
                /\ UNCHANGED <<pos, currentState, trace>>
    /\ UNCHANGED <<engine, input, suffixBuffer, currentBuffer, walks, app>>

TraceStep ==
    /\ call = "trace"
    /\ pos < Len(input)
    /\ input[pos + 1] \in alphabet
    /\ LET symbol == input[pos + 1]
           stateKey == stateToKey(currentState)
       IN  IF HasEntry(stateKey, symbol)
           THEN /\ currentState' = transitions[stateKey][symbol]
                /\ trace' = Append(trace, [state |-> currentState', symbol |-> symbol])
                /\ pos' = pos + 1
                /\ UNCHANGED <<call, result>>
           ELSE /\ call' = "crashed"
                /\ result' = "TypeError"
                /\ UNCHANGED <<pos, currentState, trace>>
    /\ UNCHANGED <<engine, input, suffixBuffer, currentBuffer, walks, app>>

TraceReturn ==
    /\ call = "trace"
    /\ pos = Len(input)
    /\ call' = "traced"
    /\ result' = trace
    /\ UNCHANGED <<engine, input, pos, currentState, trace, suffixBuffer, currentBuffer, walks, app>>

\* the caller has taken the result of a call; the engine is called again
CallEnd ==
    /\ call \in {"returned", "thrown", "traced"}
    /\ call' = "idle"
    /\ input' = <<>>
    /\ pos' = 0
    /\ currentState' = NoState
    /\ result' = Undefined
    /\ trace' = <<>>
    /\ currentBuffer' = <<>>
    /\ UNCHANGED <<engine, suffixBuffer, walks, app>>

Next ==
    \/ ConstructFail
    \/ Construct
    \/ AcceptsCall
    \/ AcceptsThrow
    \/ AcceptsStep
    \/ AcceptsReturn
    \/ TraceCall
    \/ TraceBreak
    \/ TraceStep
    \/ TraceReturn
    \/ CallEnd

Spec == Init /\ [][Next]_vars

\* the steps of a call that has started: a synchronous loop with nothing to
\* wait for
Running ==
    \/ AcceptsThrow \/ AcceptsStep \/ AcceptsReturn
    \/ TraceBreak \/ TraceStep \/ TraceReturn

\* a started call runs on, and so does a started constructor: the second
\* conjunct is WF_vars(ConstructFail \/ Construct) with its ENABLED, which
\* is phase = "new", written out
Fairness ==
    /\ WF_vars(Running)
    /\ []<>(phase # "new")

\* the calls of the specification with fairness take inputs one symbol
\* shorter, which keeps its behaviour graph small
AcceptsCallBounded ==
    /\ phase = "built"
    /\ call = "idle"
    /\ \E w \in SeqsUpTo(Symbols, MaxInput - 1) : input' = w
    /\ pos' = 0
    /\ currentState' = startState
    /\ call' = "accepts"
    /\ result' = Undefined
    /\ UNCHANGED <<engine, trace, suffixBuffer, currentBuffer, walks, app>>

TraceCallBounded ==
    /\ phase = "built"
    /\ call = "idle"
    /\ \E w \in SeqsUpTo(Symbols, MaxInput - 1) : input' = w
    /\ pos' = 0
    /\ currentState' = startState
    /\ trace' = <<[state |-> startState, symbol |-> Undefined]>>
    /\ call' = "trace"
    /\ result' = Undefined
    /\ UNCHANGED <<engine, suffixBuffer, currentBuffer, walks, app>>

NextTermination ==
    \/ ConstructFail
    \/ Construct
    \/ AcceptsCallBounded
    \/ AcceptsThrow
    \/ AcceptsStep
    \/ AcceptsReturn
    \/ TraceCallBounded
    \/ TraceBreak
    \/ TraceStep
    \/ TraceReturn
    \/ CallEnd

SpecTermination == Init /\ [][NextTermination]_vars /\ Fairness

\* construction alone: the specification for the claims about the built table
NextConstruct ==
    \/ ConstructFail
    \/ Construct

SpecConstruct == Init /\ [][NextConstruct]_vars

(***************************************************************************)
(* The suffix-buffer revision of the class (DFA.ts 327-723): the progress  *)
(* of a successor is computed from a buffer of the last symbols, kept per  *)
(* state in this.suffixBuffer; config.minCount is held in requiredCount.   *)
(***************************************************************************)
\* the orders in which the Set built from config.alphabet can be iterated
Orders(S) ==
    {order \in [1..Cardinality(S) -> S] : {order[i] : i \in 1..Cardinality(S)} = S}

\* this.suffixBuffer.get(key) || ""
BufferOf(buffers, key) == IF key \in DOMAIN buffers THEN buffers[key] ELSE <<>>

\* (buffer + symbol).slice(-this.targetString.length)
pushBuffer(buffer, symbol) ==
    LET joined == buffer \o <<symbol>>
    IN  Slice(joined, 0 - Len(targetString), Len(joined))

\* variant: only the longest candidate is compared
suffixLoopOnce(newBuffer, len) ==
    IF len > 0 /\ Slice(newBuffer, 0 - len, Len(newBuffer)) = Slice(targetString, 0, len)
    THEN len
    ELSE 0

\* for (len = min(newBuffer.length, targetString.length); len > 0; len--)
RECURSIVE suffixLoop(_, _)
suffixLoop(newBuffer, len) ==
    IF len <= 0 THEN 0
    ELSE IF Slice(newBuffer, 0 - len, Len(newBuffer)) = Slice(targetString, 0, len)
         THEN len
         ELSE suffixLoop(newBuffer, len - 1)

calculateNextStateBuffer(state, buffer, symbol) ==
    LET newBuffer == pushBuffer(buffer, symbol)
        found == suffixLoop(newBuffer, Min(Len(newBuffer), Len(targetString)))
        newProgress == IF found = 0 /\ symbol = CharAt(targetString, 0)
                       THEN 1
                       ELSE found
    IN  [progress |-> newProgress, count |-> countUpdate(state, symbol)]

\* variant: the buffer of a successor is never recorded during construction
RECURSIVE buildTransitionsRowNoStore(_, _, _, _, _)
buildTransitionsRowNoStore(state, buffer, order, j, acc) ==
    IF j > Len(order) THEN acc
    ELSE LET symbol == order[j]
             nextState == calculateNextStateBuffer(state, buffer, symbol)
         IN  buildTransitionsRowNoStore(state, buffer, order, j + 1,
                 [row |-> Put(acc.row, symbol, nextState),
                  buffers |-> acc.buffers])

\* the inner loop of buildTransitions: one row of the table, and the buffer
\* of every successor that has none yet
RECURSIVE buildTransitionsRow(_, _, _, _, _)
buildTransitionsRow(state, buffer, order, j, acc) ==
    IF j > Len(order) THEN acc
    ELSE LET symbol == order[j]
             nextState == calculateNextStateBuffer(state, buffer, symbol)
             nextStateKey == stateToKey(nextState)
         IN  buildTransitionsRow(state, buffer, order, j + 1,
                 [row |-> Put(acc.row, symbol, nextState),
                  buffers |-> IF nextStateKey \notin DOMAIN acc.buffers
                              THEN Put(acc.buffers, nextStateKey,
                                       pushBuffer(buffer, symbol))
                              ELSE acc.buffers])

RECURSIVE buildTransitionsBufferLoop(_, _, _, _)
buildTransitionsBufferLoop(sts, i, order, acc) ==
    IF i > Len(sts) THEN acc
    ELSE LET stateKey == stateToKey(sts[i])
             buffer == BufferOf(acc.buffers, stateKey)
             done == buildTransitionsRow(sts[i], buffer, order, 1,
                         [row |-> EmptyObject, buffers |-> acc.buffers])
         IN  buildTransitionsBufferLoop(sts, i + 1, order,
                 [table |-> Put(acc.table, stateKey, done.row),
                  buffers |-> done.buffers])

buildTransitionsBuffer(sts, order) ==
    buildTransitionsBufferLoop(sts, 1, order,
        [table |-> EmptyObject, buffers |-> EmptyObject])

ConstructBuffer ==
    /\ phase = "new"
    /\ ConstructorError = "none"
    /\ \E order \in Orders(alphabet) :
          LET built == buildTransitionsBuffer(buildStates, order)
          IN  /\ states' = buildStates
              /\ transitions' = built.table
              /\ startState' = [progress |-> 0, count |-> 0]
              /\ suffixBuffer' = Put(built.buffers, stateToKey(startState'), <<>>)
    /\ acceptingStateKeys' = buildAcceptingStates(states')
    /\ phase' = "builtBuffer"
    /\ UNCHANGED <<alphabet, targetString, targetChar, requiredCount, call,
                   input, pos, currentState, result, trace, currentBuffer, walks, app>>

AcceptsCallBuffer ==
    /\ phase = "builtBuffer"
    /\ call = "idle"
    /\ \E w \in SeqsUpTo(Symbols, MaxInput) : input' = w
    /\ pos' = 0
    /\ currentState' = startState
    /\ currentBuffer' = <<>>
    /\ call' = "acceptsBuffer"
    /\ result' = Undefined
    /\ UNCHANGED <<engine, trace, suffixBuffer, walks, app>>

AcceptsThrowBuffer ==
    /\ call = "acceptsBuffer"
    /\ pos < Len(input)
    /\ input[pos + 1] \notin alphabet
    /\ call' = "thrown"
    /\ result' = <<"InvalidSymbolError", input[pos + 1]>>
    /\ UNCHANGED <<engine, input, pos, currentState, trace, suffixBuffer, currentBuffer, walks, app>>

AcceptsStepBuffer ==
    /\ call = "acceptsBuffer"
    /\ pos < Len(input)
    /\ input[pos + 1] \in alphabet
    /\ LET symbol == input[pos + 1]
           stateKey == stateToKey(currentState)
       IN  /\ currentBuffer' = pushBuffer(currentBuffer, symbol)
           /\ IF HasEntry(stateKey, symbol)
              THEN /\ currentState' = transitions[stateKey][symbol]
                   /\ suffixBuffer' =
                         IF stateToKey(currentState') \notin DOMAIN suffixBuffer
                         THEN Put(suffixBuffer, stateToKey(currentState'), currentBuffer')
                         ELSE suffixBuffer
                   /\ pos' = pos + 1
                   /\ UNCHANGED <<call, result>>
              ELSE /\ call' = "crashed"
                   /\ result' = "TypeError"
                   /\ UNCHANGED <<pos, currentState, suffixBuffer>>
    /\ UNCHANGED <<engine, input, trace, walks, app>>

AcceptsReturnBuffer ==
    /\ call = "acceptsBuffer"
    /\ pos = Len(input)
    /\ result' = (stateToKey(currentState) \in acceptingStateKeys)
    /\ call' = "returned"
    /\ UNCHANGED <<engine, input, pos, currentState, trace, suffixBuffer, currentBuffer, walks, app>>

TraceCallBuffer ==
    /\ phase = "builtBuffer"
    /\ call = "idle"
    /\ \E w \in SeqsUpTo(Symbols, MaxInput) : input' = w
    /\ pos' = 0
    /\ currentState' = startState
    /\ currentBuffer' = <<>>
    /\ trace' = <<[state |-> startState, symbol |-> Undefined, buffer |-> <<>>]>>
    /\ call' = "traceBuffer"
    /\ result' = Undefined
    /\ UNCHANGED <<engine, suffixBuffer, walks, app>>

TraceBreakBuffer ==
    /\ call = "traceBuffer"
    /\ pos < Len(input)
    /\ input[pos + 1] \notin alphabet
    /\ call' = "traced"
    /\ result' = trace
    /\ UNCHANGED <<engine, input, pos, currentState, trace, suffixBuffer, currentBuffer, walks, app>>

TraceStepBuffer ==
    /\ call = "traceBuffer"
    /\ pos < Len(input)
    /\ input[pos + 1] \in alphabet
    /\ LET symbol == input[pos + 1]
           stateKey == stateToKey(currentState)
       IN  /\ currentBuffer' = pushBuffer(currentBuffer, symbol)
           /\ IF HasEntry(stateKey, symbol)
              THEN /\ currentState' = transitions[stateKey][symbol]
                   /\ trace' = Append(trace, [state |-> currentState',
                                              symbol |-> symbol,
                                              buffer |-> currentBuffer'])
                   /\ pos' = pos + 1
                   /\ UNCHANGED <<call, result>>
              ELSE /\ call' = "crashed"
                   /\ result' = "TypeError"
                   /\ UNCHANGED <<pos, currentState, trace>>
    /\ UNCHANGED <<engine, input, suffixBuffer, walks, app>>

TraceReturnBuffer ==
    /\ call = "traceBuffer"
    /\ pos = Len(input)
    /\ call' = "traced"
    /\ result' = trace
    /\ UNCHANGED <<engine, input, pos, currentState, trace, suffixBuffer, currentBuffer, walks, app>>

\* both revisions of the class, each engine called any number of times
NextRevisions ==
    \/ ConstructFail
    \/ Construct
    \/ AcceptsCall
    \/ AcceptsThrow
    \/ AcceptsStep
    \/ AcceptsReturn
    \/ TraceCall
    \/ TraceBreak
    \/ TraceStep
    \/ TraceReturn
    \/ ConstructBuffer
    \/ AcceptsCallBuffer
    \/ AcceptsThrowBuffer
    \/ AcceptsStepBuffer
    \/ AcceptsReturnBuffer
    \/ TraceCallBuffer
    \/ TraceBreakBuffer
    \/ TraceStepBuffer
    \/ TraceReturnBuffer
    \/ CallEnd

SpecRevisions == Init /\ [][NextRevisions]_vars

(***************************************************************************)
(* The read accessors of the class (the same text in both revisions).      *)
(***************************************************************************)
\* [...this.states]: a new array holding the same state objects
getStates == states

getStartState == startState

\* this.states.findIndex(s => s.progress === state.progress && ...)
getStateNumberOneBased(state) ==
    LET hits == {i \in 1..Len(states) : /\ states[i].progress = state.progress
                                        /\ states[i].count = state.count}
    IN  IF hits = {} THEN 0 - 1
        ELSE CHOOSE i \in hits : \A j \in hits : i <= j

getStateNumber(state) ==
    LET hits == {i \in 1..Len(states) : /\ states[i].progress = state.progress
                                        /\ states[i].count = state.count}
    IN  IF hits = {} THEN 0 - 1
        ELSE (CHOOSE i \in hits : \A j \in hits : i <= j) - 1

\* key.split("_")
RECURSIVE splitLoop(_, _, _, _)
splitLoop(str, i, piece, acc) ==
    IF i > Len(str) THEN Append(acc, piece)
    ELSE IF str[i] = "_" THEN splitLoop(str, i + 1, <<>>, Append(acc, piece))
    ELSE splitLoop(str, i + 1, Append(piece, str[i]), acc)

split(str) == splitLoop(str, 1, <<>>, <<>>)

\* the value parseInt gives when the string starts with no digit
NaN == 0 - 1

IsDigit(ch) == \E d \in 1..Len(DigitChar) : DigitChar[d] = ch

DigitValue(ch) == (CHOOSE d \in 1..Len(DigitChar) : DigitChar[d] = ch) - 1

\* parseInt(str, 10) on an unsigned string: the digits up to the first
\* character that is none
RECURSIVE parseIntLoop(_, _, _)
parseIntLoop(str, i, acc) ==
    IF i > Len(str) \/ ~IsDigit(str[i]) THEN acc
    ELSE parseIntLoop(str, i + 1, 10 * acc + DigitValue(str[i]))

parseInt(str) ==
    IF str = <<>> \/ ~IsDigit(str[1]) THEN NaN ELSE parseIntLoop(str, 1, 0)

\* variant: the two numbers of the key are read in the other order
keyToStateSwapped(key) ==
    LET parts == split(key)
    IN  [progress |-> IF Len(parts) >= 3 THEN parseInt(parts[3]) ELSE NaN,
         count |-> IF Len(parts) >= 2 THEN parseInt(parts[2]) ELSE NaN]

\* const [, progressStr, countStr] = key.split("_")
keyToState(key) ==
    LET parts == split(key)
    IN  [progress |-> IF Len(parts) >= 2 THEN parseInt(parts[2]) ELSE NaN,
         count |-> IF Len(parts) >= 3 THEN parseInt(parts[3]) ELSE NaN]

\* Object.keys(this.transitions): the keys in the order buildTransitions
\* created them, which is the order of the state list
RECURSIVE transitionKeys(_, _)
transitionKeys(i, acc) ==
    IF i > Len(states) THEN acc
    ELSE LET key == stateToKey(states[i])
         IN  transitionKeys(i + 1,
                 IF key \in DOMAIN transitions /\ key \notin {acc[k] : k \in 1..Len(acc)}
                 THEN Append(acc, key)
                 ELSE acc)

\* the inner loop of getTransitionsList over one row of the table
RECURSIVE transitionsOfRow(_, _, _, _)
transitionsOfRow(fromKey, order, j, acc) ==
    IF j > Len(order) THEN acc
    ELSE transitionsOfRow(fromKey, order, j + 1,
             IF order[j] \in DOMAIN transitions[fromKey]
             THEN Append(acc, [from |-> keyToState(fromKey),
                               symbol |-> order[j],
                               to |-> transitions[fromKey][order[j]]])
             ELSE acc)

RECURSIVE transitionsListLoop(_, _, _, _)
transitionsListLoop(keys, i, order, acc) ==
    IF i > Len(keys) THEN acc
    ELSE transitionsListLoop(keys, i + 1, order,
                             transitionsOfRow(keys[i], order, 1, acc))

\* order: the order in which the symbols were entered into each row
getTransitionsList(order) ==
    transitionsListLoop(transitionKeys(1, <<>>), 1, order, <<>>)

\* the states a caller can ask about: the declared ones and their neighbours
StateArguments ==
    {[progress |-> p, count |-> c] : p \in 0..(MaxTarget + 1), c \in 0..(MaxCount + 2)}

GetStates ==
    /\ phase = "built"
    /\ call = "idle"
    /\ call' = "got"
    /\ result' = [method |-> "getStates", value |-> getStates]
    /\ UNCHANGED <<engine, input, pos, currentState, trace, suffixBuffer, currentBuffer, walks, app>>

GetStartState ==
    /\ phase = "built"
    /\ call = "idle"
    /\ call' = "got"
    /\ result' = [method |-> "getStartState", value |-> getStartState]
    /\ UNCHANGED <<engine, input, pos, currentState, trace, suffixBuffer, currentBuffer, walks, app>>

GetStateNumber ==
    /\ phase = "built"
    /\ call = "idle"
    /\ \E state \in StateArguments :
          result' = [method |-> "getStateNumber", argument |-> state,
                     value |-> getStateNumber(state)]
    /\ call' = "got"
    /\ UNCHANGED <<engine, input, pos, currentState, trace, suffixBuffer, currentBuffer, walks, app>>

GetTransitionsList ==
    /\ phase = "built"
    /\ call = "idle"
    /\ \E order \in Orders(alphabet) :
          result' = [method |-> "getTransitionsList", value |-> getTransitionsList(order)]
    /\ call' = "got"
    /\ UNCHANGED <<engine, input, pos, currentState, trace, suffixBuffer, currentBuffer, walks, app>>

\* construction followed by one call of a read accessor
NextViews ==
    \/ ConstructFail
    \/ Construct
    \/ GetStates
    \/ GetStartState
    \/ GetStateNumber
    \/ GetTransitionsList

SpecViews == Init /\ [][NextViews]_vars

(***************************************************************************)
(* accepts on the worked examples of the documentation.                    *)
(***************************************************************************)
\* the configuration of the worked examples
ScenarioConfig ==
    /\ alphabet = {"a", "b"}
    /\ targetString = <<"a", "b">>
    /\ targetChar = "a"
    /\ requiredCount = 2

ScenarioInputs ==
    {<<"b", "a", "a", "b">>, <<"a", "a", "b", "a", "b">>, <<"b", "a">>}

AcceptsCallScenario ==
    /\ phase = "built"
    /\ call = "idle"
    /\ \E w \in ScenarioInputs : input' = w
    /\ pos' = 0
    /\ currentState' = startState
    /\ call' = "accepts"
    /\ result' = Undefined
    /\ UNCHANGED <<engine, trace, suffixBuffer, currentBuffer, walks, app>>

NextScenario ==
    \/ ConstructFail
    \/ Construct
    \/ AcceptsCallScenario
    \/ AcceptsThrow
    \/ AcceptsStep
    \/ AcceptsReturn

SpecScenario == Init /\ [][NextScenario]_vars

(***************************************************************************)
(* A caller that writes to what the engine handed out.  getStates copies   *)
(* the array but not the state objects; getStartState, trace and the 'to'  *)
(* of getTransitionsList return the engine's own objects.  Every slot of   *)
(* the engine (an element of this.states, this.startState, a table entry)  *)
(* holds an object of its own, so a write through a reference is a write   *)
(* to the slot the reference came from.                                    *)
(***************************************************************************)
\* the engine as the constructor left it
Pristine ==
    /\ states = buildStates
    /\ startState = [progress |-> 0, count |-> 0]
    /\ transitions = buildTransitions(buildStates)

\* the values a caller can give a state object by one assignment to a field
Writes(state) ==
    {[state EXCEPT !.progress = v] : v \in 0..(Len(targetString) + 1)}
        \cup {[state EXCEPT !.count = v] : v \in 0..(requiredCount + 2)}

InitAliasing ==
    /\ ScenarioConfig
    /\ states = <<>>
    /\ startState = NoState
    /\ acceptingStateKeys = {}
    /\ transitions = EmptyObject
    /\ phase = "new"
    /\ call = "idle"
    /\ input = <<>>
    /\ pos = 0
    /\ currentState = NoState
    /\ result = Undefined
    /\ trace = <<>>
    /\ suffixBuffer = EmptyObject
    /\ currentBuffer = <<>>
    /\ walks = [e \in Walkers |-> IdleWalk]
    /\ NoApp

\* the caller is done with the value an accessor returned
ViewEnd ==
    /\ call = "got"
    /\ call' = "idle"
    /\ result' = Undefined
    /\ UNCHANGED <<engine, input, pos, currentState, trace, suffixBuffer, currentBuffer, walks, app>>

\* getStates().pop(): the array is the caller's own
MutateGotList ==
    /\ call = "got"
    /\ result.method = "getStates"
    /\ Pristine
    /\ Len(result.value) = Len(states)
    /\ result' = [result EXCEPT !.value = SubSeq(result.value, 1, Len(result.value) - 1)]
    /\ UNCHANGED <<engine, call, input, pos, currentState, trace, suffixBuffer, currentBuffer, walks, app>>

\* getStates()[i].progress = v: the object is the one in this.states
MutateStateObject ==
    /\ call = "got"
    /\ result.method = "getStates"
    /\ Pristine
    /\ \E i \in 1..Len(result.value) : \E new \in Writes(states[i]) \ {states[i]} :
          /\ states' = [states EXCEPT ![i] = new]
          /\ result' = [result EXCEPT !.value[i] = new]
    /\ UNCHANGED <<alphabet, targetString, targetChar, requiredCount, startState,
                   acceptingStateKeys, transitions, phase, call, input, pos,
                   currentState, trace, suffixBuffer, currentBuffer, walks, app>>

\* getStartState().count = v
MutateStartState ==
    /\ call = "got"
    /\ result.method = "getStartState"
    /\ Pristine
    /\ \E new \in Writes(startState) \ {startState} :
          /\ startState' = new
          /\ result' = [result EXCEPT !.value = new]
    /\ UNCHANGED <<alphabet, targetString, targetChar, requiredCount, states,
                   acceptingStateKeys, transitions, phase, call, input, pos,
                   currentState, trace, suffixBuffer, currentBuffer, walks, app>>

\* getTransitionsList()[k].to.progress = v: the object is the table entry
MutateListedEntry ==
    /\ call = "got"
    /\ result.method = "getTransitionsList"
    /\ Pristine
    /\ \E k \in 1..Len(result.value) :
          LET key == stateToKey(result.value[k].from)
              symbol == result.value[k].symbol
          IN  \E new \in Writes(transitions[key][symbol]) \ {transitions[key][symbol]} :
                  /\ transitions' = [transitions EXCEPT ![key][symbol] = new]
                  /\ result' = [result EXCEPT !.value[k].to = new]
    /\ UNCHANGED <<alphabet, targetString, targetChar, requiredCount, states, startState,
                   acceptingStateKeys, phase, call, input, pos, currentState, trace,
                   suffixBuffer, currentBuffer, walks, app>>

\* trace(w)[k].state.count = v: the first element holds this.startState,
\* every later one the table entry the walk went through
MutateTracedState ==
    /\ call = "traced"
    /\ Pristine
    /\ \E k \in 1..Len(result) : \E new \in Writes(result[k].state) \ {result[k].state} :
          /\ result' = [result EXCEPT ![k].state = new]
          /\ IF k = 1
             THEN /\ startState' = new
                  /\ UNCHANGED transitions
             ELSE /\ transitions' =
                        [transitions EXCEPT ![stateToKey(result[k - 1].state)][result[k].symbol] = new]
                  /\ UNCHANGED startState
    /\ UNCHANGED <<alphabet, targetString, targetChar, requiredCount, states,
                   acceptingStateKeys, phase, call, input, pos, currentState, trace,
                   suffixBuffer, currentBuffer, walks, app>>

NextAliasing ==
    \/ Construct
    \/ GetStates
    \/ GetStartState
    \/ GetStateNumber
    \/ GetTransitionsList
    \/ ViewEnd
    \/ MutateGotList
    \/ MutateStateObject
    \/ MutateStartState
    \/ MutateListedEntry
    \/ MutateTracedState
    \/ AcceptsCallBounded
    \/ AcceptsThrow
    \/ AcceptsStep
    \/ AcceptsReturn
    \/ TraceCallBounded
    \/ TraceBreak
    \/ TraceStep
    \/ TraceReturn
    \/ CallEnd

SpecAliasing == InitAliasing /\ [][NextAliasing]_vars

(***************************************************************************)
(* Several accepts / trace calls in progress on one engine, of either      *)
(* revision, their loop iterations interleaved in any order.  Each call    *)
(* has its locals in walks[e]; the engine's fields are shared.             *)
(***************************************************************************)
\* the first element of the array trace starts with
firstTraceEntry ==
    IF phase = "builtBuffer"
    THEN [state |-> startState, symbol |-> Undefined, buffer |-> <<>>]
    ELSE [state |-> startState, symbol |-> Undefined]

\* the element trace pushes for a step
traceEntry(state, symbol, buffer) ==
    IF phase = "builtBuffer"
    THEN [state |-> state, symbol |-> symbol, buffer |-> buffer]
    ELSE [state |-> state, symbol |-> symbol]

WalkCall(e) ==
    /\ phase \in {"built", "builtBuffer"}
    /\ walks[e].call = "idle"
    /\ \E method \in {"accepts", "trace"} : \E w \in SeqsUpTo(Symbols, MaxInput - 2) :
          walks' = [walks EXCEPT ![e] =
                       [call |-> method, input |-> w, pos |-> 0,
                        currentState |-> startState, currentBuffer |-> <<>>,
                        trace |-> IF method = "trace" THEN <<firstTraceEntry>> ELSE <<>>,
                        result |-> Undefined]]
    /\ UNCHANGED <<engine, call, input, pos, currentState, result, trace,
                   suffixBuffer, currentBuffer, app>>

\* accepts: throw new InvalidSymbolError(symbol)
WalkThrow(e) ==
    /\ walks[e].call = "accepts"
    /\ walks[e].pos < Len(walks[e].input)
    /\ walks[e].input[walks[e].pos + 1] \notin alphabet
    /\ walks' = [walks EXCEPT ![e].call = "thrown",
                              ![e].result = <<"InvalidSymbolError",
                                              walks[e].input[walks[e].pos + 1]>>]
    /\ UNCHANGED <<engine, call, input, pos, currentState, result, trace,
                   suffixBuffer, currentBuffer, app>>

\* trace: break
WalkBreak(e) ==
    /\ walks[e].call = "trace"
    /\ walks[e].pos < Len(walks[e].input)
    /\ walks[e].input[walks[e].pos + 1] \notin alphabet
    /\ walks' = [walks EXCEPT ![e].call = "traced", ![e].result = walks[e].trace]
    /\ UNCHANGED <<engine, call, input, pos, currentState, result, trace,
                   suffixBuffer, currentBuffer, app>>

\* variant: the cursor is a field of the engine, one for all calls
WalkStepSharedCursor(e) ==
    /\ walks[e].call \in {"accepts", "trace"}
    /\ walks[e].pos < Len(walks[e].input)
    /\ walks[e].input[walks[e].pos + 1] \in alphabet
    /\ LET symbol == walks[e].input[walks[e].pos + 1]
           stateKey == stateToKey(walks[e].currentState)
       IN  /\ HasEntry(stateKey, symbol)
           /\ walks' = [f \in Walkers |->
                 IF f = e
                 THEN [walks[e] EXCEPT
                          !.currentState = transitions[stateKey][symbol],
                          !.pos = walks[e].pos + 1,
                          !.trace = IF walks[e].call = "trace"
                                    THEN Append(walks[e].trace,
                                                traceEntry(transitions[stateKey][symbol],
                                                           symbol, <<>>))
                                    ELSE walks[e].trace]
                 ELSE IF walks[f].call \in {"accepts", "trace"}
                      THEN [walks[f] EXCEPT !.currentState = transitions[stateKey][symbol]]
                      ELSE walks[f]]
    /\ UNCHANGED <<engine, call, input, pos, currentState, result, trace,
                   suffixBuffer, currentBuffer, app>>

\* one iteration of the loop of accepts or trace on a symbol of the alphabet
WalkStep(e) ==
    /\ walks[e].call \in {"accepts", "trace"}
    /\ walks[e].pos < Len(walks[e].input)
    /\ walks[e].input[walks[e].pos + 1] \in alphabet
    /\ LET symbol == walks[e].input[walks[e].pos + 1]
           stateKey == stateToKey(walks[e].currentState)
           newBuffer == IF phase = "builtBuffer"
                        THEN pushBuffer(walks[e].currentBuffer, symbol)
                        ELSE walks[e].currentBuffer
       IN  IF HasEntry(stateKey, symbol)
           THEN LET newState == transitions[stateKey][symbol]
                IN  /\ walks' = [walks EXCEPT
                          ![e].currentState = newState,
                          ![e].currentBuffer = newBuffer,
                          ![e].pos = walks[e].pos + 1,
                          ![e].trace = IF walks[e].call = "trace"
                                       THEN Append(walks[e].trace,
                                                   traceEntry(newState, symbol, newBuffer))
                                       ELSE walks[e].trace]
                    /\ suffixBuffer' =
                          IF /\ phase = "builtBuffer"
                             /\ walks[e].call = "accepts"
                             /\ stateToKey(newState) \notin DOMAIN suffixBuffer
                          THEN Put(suffixBuffer, stateToKey(newState), newBuffer)
                          ELSE suffixBuffer
           ELSE /\ walks' = [walks EXCEPT ![e].call = "crashed",
                                          ![e].currentBuffer = newBuffer,
                                          ![e].result = "TypeError"]
                /\ UNCHANGED suffixBuffer
    /\ UNCHANGED <<engine, call, input, pos, currentState, result, trace,
                   currentBuffer, app>>

WalkReturn(e) ==
    /\ walks[e].call \in {"accepts", "trace"}
    /\ walks[e].pos = Len(walks[e].input)
    /\ walks' = [walks EXCEPT
          ![e].call = IF walks[e].call = "accepts" THEN "returned" ELSE "traced",
          ![e].result = IF walks[e].call = "accepts"
                        THEN stateToKey(walks[e].currentState) \in acceptingStateKeys
                        ELSE walks[e].trace]
    /\ UNCHANGED <<engine, call, input, pos, currentState, result, trace,
                   suffixBuffer, currentBuffer, app>>

NextShared ==
    \/ Construct
    \/ ConstructBuffer
    \/ \E e \in Walkers : WalkCall(e)
    \/ \E e \in Walkers : WalkThrow(e)
    \/ \E e \in Walkers : WalkBreak(e)
    \/ \E e \in Walkers : WalkStep(e)
    \/ \E e \in Walkers : WalkReturn(e)

SpecShared == InitAliasing /\ [][NextShared]_vars

(***************************************************************************)
(* The pages around the engine: the form (LanguageForm), the chain page    *)
(* (ChainChecker), the routes (App) and the results page (ResultsPage),    *)
(* with the store (useLanguageStore) they share.  A stored language is     *)
(* the record the form builds; its alphabet is an array of characters.     *)
(***************************************************************************)
\* undefined in a slot that holds a string: a form field never touched
UndefinedString == <<"undefined">>

\* what the form hands to handleSubmit once its rules have passed: alphabet,
\* selectedSymbol and chain are not empty, selectedSymbol is one character,
\* symbolCount is at least 1; requiredSuffix has no rule
AlphabetFields == {<<" ">>, <<"a">>, <<"a", " ", "b">>}
SuffixFields == SeqsUpTo({"a", "b"}, MaxTarget - 2) \cup {UndefinedString}
SymbolFields == {"a", "b"}
CountFields == 1..MaxCount
ChainFields ==
    (SeqsUpTo({"a", "b"}, MaxInput - 2) \ {<<>>}) \cup {<<" ">>, <<" ", "a", " ">>}

FormValues ==
    [alphabet : AlphabetFields, requiredSuffix : SuffixFields,
     selectedSymbol : SymbolFields, symbolCount : CountFields,
     chain : ChainFields]

\* values.alphabet.split("").filter((char) => char.trim() !== "")
RECURSIVE filterLoop(_, _, _)
filterLoop(str, i, acc) ==
    IF i > Len(str) THEN acc
    ELSE filterLoop(str, i + 1, IF str[i] = " " THEN acc ELSE Append(acc, str[i]))

filterBlank(str) == filterLoop(str, 1, <<>>)

\* String.prototype.trim on the strings of the model
RECURSIVE trimStart(_)
trimStart(str) ==
    IF str # <<>> /\ Head(str) = " " THEN trimStart(Tail(str)) ELSE str

RECURSIVE trimEnd(_)
trimEnd(str) ==
    IF str # <<>> /\ str[Len(str)] = " "
    THEN trimEnd(SubSeq(str, 1, Len(str) - 1))
    ELSE str

trim(str) == trimEnd(trimStart(str))

\* Array.prototype.includes
includes(array, element) == \E i \in 1..Len(array) : array[i] = element

\* validateLanguage(language): the message of the error it throws, "none"
\* when it returns
validateLanguage(config) ==
    IF Len(config.alphabet) = 0 THEN "AlphabetMustBeNonEmptyArray"
    ELSE IF config.targetString = UndefinedString THEN "SuffixMustBeString"
    ELSE IF ~includes(config.alphabet, config.targetChar) THEN "SymbolMustBeInAlphabet"
    ELSE IF config.requiredCount < 1 THEN "CountMustBeIntegerAtLeastOne"
    ELSE "none"

\* <ProtectedRoute>: the chain page, or <Navigate to="/">
ProtectedRoute(lang) ==
    IF lang # Null THEN "/check" ELSE "/"

\* variant: the results route is guarded like the chain page, by the
\* language alone
ProtectedResultsRouteLanguageOnly(lang, ch) ==
    IF lang # Null THEN "/results" ELSE ProtectedRoute(lang)

\* <ProtectedResultsRoute>: the results page, or <Navigate to="/check">
ProtectedResultsRoute(lang, ch) ==
    IF lang # Null /\ ch # NullString /\ ch # <<>>
    THEN "/results"
    ELSE ProtectedRoute(lang)

\* the route shown for a path, redirections followed
Routes(path, lang, ch) ==
    CASE path = "/" -> "/"
      [] path = "/check" -> ProtectedRoute(lang)
      [] path = "/results" -> ProtectedResultsRoute(lang, ch)

Paths == {"/", "/check", "/results"}

\* the application after loading: an empty store, the form, no engine
InitApp ==
    /\ alphabet = {}
    /\ targetString = <<>>
    /\ targetChar = Undefined
    /\ requiredCount = 0
    /\ states = <<>>
    /\ startState = NoState
    /\ acceptingStateKeys = {}
    /\ transitions = EmptyObject
    /\ phase = "null"
    /\ call = "idle"
    /\ input = <<>>
    /\ pos = 0
    /\ currentState = NoState
    /\ result = Undefined
    /\ trace = <<>>
    /\ suffixBuffer = EmptyObject
    /\ currentBuffer = <<>>
    /\ walks = [e \in Walkers |-> IdleWalk]
    /\ NoApp

\* the results page is unmounted: its state and its engine are dropped
ClosePage ==
    /\ alphabet' = {}
    /\ targetString' = <<>>
    /\ targetChar' = Undefined
    /\ requiredCount' = 0
    /\ states' = <<>>
    /\ startState' = NoState
    /\ acceptingStateKeys' = {}
    /\ transitions' = EmptyObject
    /\ phase' = "null"
    /\ result' = Undefined
    /\ traceSteps' = NullArray
    /\ checkResult' = Null
    /\ currentStep' = 0

\* message.error / message.success: the message closes after its duration,
\* here before the next submission
MessageClose ==
    /\ shown # Undefined
    /\ shown' = Undefined
    /\ UNCHANGED <<engine, call, input, pos, currentState, result, trace,
                   suffixBuffer, currentBuffer, walks, language, chain,
                   chainIsForLanguage, location, traceSteps, checkResult,
                   currentStep>>

\* LanguageForm.handleSubmit(values)
HandleSubmit ==
    /\ location = "/"
    /\ shown = Undefined
    /\ \E values \in FormValues :
          LET formAlphabet == filterBlank(values.alphabet)
              config == [alphabet |-> formAlphabet,
                         targetString |-> values.requiredSuffix,
                         targetChar |-> values.selectedSymbol,
                         requiredCount |-> values.symbolCount]
              trimmedChain == trim(values.chain)
          IN  IF Len(formAlphabet) = 0
              THEN /\ shown' = "EMPTY_ALPHABET"
                   /\ UNCHANGED <<language, chain, chainIsForLanguage, location>>
              ELSE IF values.selectedSymbol = ""
                      \/ ~includes(formAlphabet, values.selectedSymbol)
              THEN /\ shown' = "SYMBOL_NOT_IN_ALPHABET"
                   /\ UNCHANGED <<language, chain, chainIsForLanguage, location>>
              ELSE IF validateLanguage(config) # "none"
              THEN /\ shown' = validateLanguage(config)
                   /\ UNCHANGED <<language, chain, chainIsForLanguage, location>>
              ELSE /\ language' = config
                   /\ IF trimmedChain = <<>>
                      THEN /\ shown' = "EMPTY_CHAIN"
                           /\ chainIsForLanguage' =
                                 (chainIsForLanguage /\ config = language)
                           /\ UNCHANGED <<chain, location>>
                      ELSE /\ chain' = trimmedChain
                           /\ chainIsForLanguage' = TRUE
                           /\ shown' = "LANGUAGE_SAVED"
                           /\ location' = Routes("/results", config, trimmedChain)
    /\ UNCHANGED <<engine, call, input, pos, currentState, result, trace,
                   suffixBuffer, currentBuffer, walks, traceSteps, checkResult,
                   currentStep>>

\* ChainChecker.handleCheck with the chain typed into its field
HandleCheck ==
    /\ location = "/check"
    /\ shown = Undefined
    /\ \E field \in ChainFields :
          LET trimmedChain == trim(field)
          IN  IF language = Null
              THEN /\ shown' = "LanguageNotSet"
                   /\ UNCHANGED <<chain, chainIsForLanguage, location>>
              ELSE IF trimmedChain = <<>>
              THEN /\ shown' = "EMPTY_CHAIN"
                   /\ UNCHANGED <<chain, chainIsForLanguage, location>>
              ELSE IF validateLanguage(language) # "none"
              THEN /\ shown' = validateLanguage(language)
                   /\ UNCHANGED <<chain, chainIsForLanguage, location>>
              ELSE /\ chain' = trimmedChain
                   /\ chainIsForLanguage' = TRUE
                   /\ shown' = Undefined
                   /\ location' = Routes("/results", language, trimmedChain)
    /\ UNCHANGED <<engine, call, input, pos, currentState, result, trace,
                   suffixBuffer, currentBuffer, walks, language, traceSteps,
                   checkResult, currentStep>>

\* a link of a page or the history takes the router to another path; the
\* results page is left only once it has been rendered
Navigate ==
    /\ phase = "null" \/ (phase = "built" /\ checkResult # Null)
    /\ \E path \in Paths :
          /\ Routes(path, language, chain) # location
          /\ location' = Routes(path, language, chain)
    /\ shown' = Undefined
    /\ IF location = "/results"
       THEN ClosePage
       ELSE UNCHANGED <<engine, result, traceSteps, checkResult, currentStep>>
    /\ UNCHANGED <<call, input, pos, currentState, trace, suffixBuffer,
                   currentBuffer, walks, language, chain, chainIsForLanguage>>

\* ResultsPage: new DFA(language), up to the constructor's first check
MountResults ==
    /\ location = "/results"
    /\ phase = "null"
    /\ language # Null
    /\ alphabet' = {language.alphabet[i] : i \in 1..Len(language.alphabet)}
    /\ targetString' = language.targetString
    /\ targetChar' = language.targetChar
    /\ requiredCount' = language.requiredCount
    /\ phase' = "new"
    /\ UNCHANGED <<states, startState, acceptingStateKeys, transitions, call,
                   input, pos, currentState, result, trace, suffixBuffer,
                   currentBuffer, walks, app>>

\* dfa.accepts(input) as one call: how it ended and with what
RECURSIVE acceptsLoop(_, _, _)
acceptsLoop(w, i, current) ==
    IF i > Len(w)
    THEN [call |-> "returned", result |-> (stateToKey(current) \in acceptingStateKeys)]
    ELSE IF w[i] \notin alphabet
    THEN [call |-> "thrown", result |-> <<"InvalidSymbolError", w[i]>>]
    ELSE IF ~HasEntry(stateToKey(current), w[i])
    THEN [call |-> "crashed", result |-> "TypeError"]
    ELSE acceptsLoop(w, i + 1, transitions[stateToKey(current)][w[i]])

dfaAccepts(w) == acceptsLoop(w, 1, startState)

\* dfa.trace(input) as one call
RECURSIVE traceLoop(_, _, _, _)
traceLoop(w, i, current, acc) ==
    IF i > Len(w) \/ w[i] \notin alphabet
    THEN [call |-> "traced", result |-> acc]
    ELSE IF ~HasEntry(stateToKey(current), w[i])
    THEN [call |-> "crashed", result |-> "TypeError"]
    ELSE LET next == transitions[stateToKey(current)][w[i]]
         IN  traceLoop(w, i + 1, next, Append(acc, traceEntry(next, w[i], <<>>)))

dfaTrace(w) == traceLoop(w, 1, startState, <<firstTraceEntry>>)

\* the useMemo of traceSteps: null when trace throws
traceStepsMemo ==
    IF dfaTrace(chain).call = "traced" THEN dfaTrace(chain).result ELSE NullArray

\* the reasons checkResult collects from the final state
reasonsOf(finalState) ==
    (IF finalState.progress # Len(language.targetString)
     THEN <<[kind |-> "SuffixNotFound", progress |-> finalState.progress,
             of |-> Len(language.targetString)]>>
     ELSE <<>>)
    \o
    (IF finalState.count # language.requiredCount
     THEN <<[kind |-> "WrongCount", count |-> finalState.count,
             required |-> language.requiredCount]>>
     ELSE <<>>)

\* the useMemo of checkResult
checkResultMemo ==
    LET run == dfaAccepts(chain)
        steps == dfaTrace(chain)
    IN  IF run.call = "thrown"
        THEN [accepted |-> FALSE, message |-> "NotAccepted",
              reason |-> <<[kind |-> "SymbolNotInAlphabet", symbol |-> run.result[2]]>>,
              finalState |-> Null]
        ELSE IF run.call = "crashed" \/ steps.call = "crashed"
        THEN [accepted |-> FALSE, message |-> "CheckError",
              reason |-> <<[kind |-> "TypeError"]>>, finalState |-> Null]
        ELSE LET last == steps.result[Len(steps.result)]
                 finalState == IF "to" \in DOMAIN last THEN last.to ELSE getStartState
             IN  IF run.result
                 THEN [accepted |-> TRUE, message |-> "Accepted", reason |-> <<>>,
                       finalState |-> finalState]
                 ELSE [accepted |-> FALSE, message |-> "NotAccepted",
                       reason |-> IF reasonsOf(finalState) = <<>>
                                  THEN <<[kind |-> "NoAcceptingState"]>>
                                  ELSE reasonsOf(finalState),
                       finalState |-> finalState]

\* ResultsPage: the rest of its first render, with the engine constructed
RenderResults ==
    /\ location = "/results"
    /\ phase = "built"
    /\ checkResult = Null
    /\ traceSteps' = traceStepsMemo
    /\ checkResult' = checkResultMemo
    /\ UNCHANGED <<engine, call, input, pos, currentState, result, trace,
                   suffixBuffer, currentBuffer, walks, language, chain,
                   chainIsForLanguage, location, shown, currentStep>>

\* the step view is on the page
stepControls ==
    /\ location = "/results"
    /\ checkResult # Null
    /\ traceSteps # NullArray
    /\ Len(traceSteps) > 0

\* variant: the guard compares with the length, not with the last index
HandleNextStepToLength ==
    /\ stepControls
    /\ currentStep' = IF traceSteps # NullArray /\ currentStep < Len(traceSteps)
                      THEN currentStep + 1
                      ELSE currentStep
    /\ UNCHANGED <<engine, call, input, pos, currentState, result, trace,
                   suffixBuffer, currentBuffer, walks, language, chain,
                   chainIsForLanguage, location, shown, traceSteps, checkResult>>

HandleNextStep ==
    /\ stepControls
    /\ currentStep' = IF traceSteps # NullArray /\ currentStep < Len(traceSteps) - 1
                      THEN currentStep + 1
                      ELSE currentStep
    /\ UNCHANGED <<engine, call, input, pos, currentState, result, trace,
                   suffixBuffer, currentBuffer, walks, language, chain,
                   chainIsForLanguage, location, shown, traceSteps, checkResult>>

HandlePrevStep ==
    /\ stepControls
    /\ currentStep' = IF currentStep > 0 THEN currentStep - 1 ELSE currentStep
    /\ UNCHANGED <<engine, call, input, pos, currentState, result, trace,
                   suffixBuffer, currentBuffer, walks, language, chain,
                   chainIsForLanguage, location, shown, traceSteps, checkResult>>

HandleResetSteps ==
    /\ stepControls
    /\ currentStep' = 0
    /\ UNCHANGED <<engine, call, input, pos, currentState, result, trace,
                   suffixBuffer, currentBuffer, walks, language, chain,
                   chainIsForLanguage, location, shown, traceSteps, checkResult>>

HandleCompleteSteps ==
    /\ stepControls
    /\ currentStep' = IF traceSteps # NullArray
                      THEN Len(traceSteps) - 1
                      ELSE currentStep
    /\ UNCHANGED <<engine, call, input, pos, currentState, result, trace,
                   suffixBuffer, currentBuffer, walks, language, chain,
                   chainIsForLanguage, location, shown, traceSteps, checkResult>>

NextApp ==
    \/ HandleSubmit
    \/ MessageClose
    \/ HandleCheck
    \/ Navigate
    \/ MountResults
    \/ ConstructFail
    \/ Construct
    \/ RenderResults
    \/ HandleNextStep
    \/ HandlePrevStep
    \/ HandleResetSteps
    \/ HandleCompleteSteps

SpecApp == InitApp /\ [][NextApp]_vars

TypeOK ==
    /\ phase \in {"null", "new", "built", "builtBuffer", "failed"}
    /\ call \in {"idle", "accepts", "returned", "thrown", "crashed", "trace",
                 "traced", "acceptsBuffer", "traceBuffer", "got"}
    /\ pos \in 0..Len(input)

(***************************************************************************)
(* Reference notions the properties are stated with.                       *)
(***************************************************************************)
Range(seq) == {seq[i] : i \in 1..Len(seq)}

EndsWith(w, t) ==
    /\ Len(w) >= Len(t)
    /\ SubSeq(w, Len(w) - Len(t) + 1, Len(w)) = t

CountOcc(w, c) == Cardinality({i \in 1..Len(w) : w[i] = c})

\* the last k symbols of w are the first k symbols of t
IsSuffixPrefix(w, t, k) ==
    /\ k <= Len(w)
    /\ k <= Len(t)
    /\ SubSeq(w, Len(w) - k + 1, Len(w)) = SubSeq(t, 1, k)

LongestSuffixPrefix(w, t) ==
    CHOOSE k \in 0..Min(Len(w), Len(t)) :
        /\ IsSuffixPrefix(w, t, k)
        /\ \A j \in (k + 1)..Min(Len(w), Len(t)) : ~IsSuffixPrefix(w, t, j)

\* KMP prefix function: fail[i] for the prefix t[0..i] (zero-based i)
Fail(t, i) ==
    CHOOSE k \in 0..i :
        /\ SubSeq(t, 1, k) = SubSeq(t, i + 2 - k, i + 1)
        /\ \A j \in (k + 1)..i : SubSeq(t, 1, j) # SubSeq(t, i + 2 - j, i + 1)

RECURSIVE KMPStep(_, _, _)
KMPStep(t, progress, symbol) ==
    IF progress > 0 /\ symbol # CharAt(t, progress)
    THEN KMPStep(t, Fail(t, progress - 1), symbol)
    ELSE IF symbol = CharAt(t, progress) THEN progress + 1 ELSE 0

Built == phase = "built" /\ ValidConfig

\* the table entry for a state and a symbol, undefined when there is none
Entry(state, symbol) ==
    IF state # NoState /\ HasEntry(stateToKey(state), symbol)
    THEN transitions[stateToKey(state)][symbol]
    ELSE NoState

\* the states reachable from the set S along table entries
RECURSIVE ReachFrom(_)
ReachFrom(S) ==
    LET next == S \cup ({Entry(s, a) : s \in S, a \in alphabet} \ {NoState})
    IN  IF next = S THEN S ELSE ReachFrom(next)

\* the state the table leads to from the start state along w
RECURSIVE Walk(_)
Walk(w) ==
    IF w = <<>> THEN startState
    ELSE Entry(Walk(SubSeq(w, 1, Len(w) - 1)), w[Len(w)])

Consumed == SubSeq(input, 1, pos)

\* the state the KMP-style revision is in after w: its table entry for a
\* declared state and an alphabet symbol is calculateNextState of the two
RECURSIVE KMPWalk(_)
KMPWalk(w) ==
    IF w = <<>> THEN [progress |-> 0, count |-> 0]
    ELSE calculateNextState(KMPWalk(SubSeq(w, 1, Len(w) - 1)), w[Len(w)])

\* the positions of w that hold a symbol outside the alphabet
InvalidPositions(w) == {i \in 1..Len(w) : w[i] \notin alphabet}

FirstInvalid(w) ==
    CHOOSE i \in InvalidPositions(w) : \A j \in InvalidPositions(w) : i <= j

\* the length of the longest prefix of w over the alphabet
ValidPrefixLen(w) ==
    IF InvalidPositions(w) = {} THEN Len(w) ELSE FirstInvalid(w) - 1

(***************************************************************************)
(* C1: for a valid configuration and an input over the alphabet, accepts   *)
(* returns true iff the input ends with targetString and contains          *)
(* targetChar exactly requiredCount times.                                 *)
(***************************************************************************)
AcceptsIffSuffixAndExactCount ==
    (Built /\ call = "returned") =>
        ((result = TRUE) <=> (/\ EndsWith(input, targetString)
                              /\ CountOcc(input, targetChar) = requiredCount))

AcceptsTrueWitness ==
    /\ Built
    /\ call = "returned"
    /\ result = TRUE
    /\ Len(targetString) >= 2
    /\ Len(input) > Len(targetString)

(***************************************************************************)
(* C2: after construction from a valid configuration the transition table  *)
(* has exactly one row per declared state and in each row exactly one      *)
(* entry per alphabet symbol.                                              *)
(***************************************************************************)
TransitionTableTotal ==
    Built =>
        /\ DOMAIN transitions = {stateToKey(states[i]) : i \in 1..Len(states)}
        /\ Cardinality(DOMAIN transitions) = Len(states)
        /\ \A key \in DOMAIN transitions : DOMAIN transitions[key] = alphabet

TransitionTableWitness ==
    /\ Built
    /\ Len(states) >= 6
    /\ Cardinality(alphabet) = 2
    /\ Cardinality(DOMAIN transitions) >= 6

(***************************************************************************)
(* C3: the declared state space is closed under the transition function:   *)
(* every successor of a declared state has progress in 0..len(targetString)*)
(* and count in 0..requiredCount+1, is itself declared and has a table row *)
(* (stated of the engine as the constructor leaves it; no later step       *)
(* changes it), so the walk of accepts never misses a row.                 *)
(***************************************************************************)
StateSpaceClosed ==
    /\ (Built /\ call = "idle") =>
          \A i \in 1..Len(states) : \A symbol \in alphabet :
              LET next == calculateNextState(states[i], symbol)
              IN  /\ next.progress \in 0..Len(targetString)
                  /\ next.count \in 0..(requiredCount + 1)
                  /\ next \in Range(states)
                  /\ stateToKey(next) \in DOMAIN transitions
    /\ Built =>
          /\ call # "crashed"
          /\ call = "accepts" =>
                /\ currentState \in Range(states)
                /\ stateToKey(currentState) \in DOMAIN transitions

StateSpaceCornerWitness ==
    /\ Built
    /\ call = "accepts"
    /\ pos >= 1
    /\ Len(targetString) >= 1
    /\ currentState.progress = Len(targetString)
    /\ currentState.count = requiredCount + 1

(***************************************************************************)
(* C4, as claimed: from a declared state with progress = len(targetString) *)
(* >= 1 the successor's progress is 1 if the symbol is targetString[0] and *)
(* 0 otherwise.                                                            *)
(***************************************************************************)
RestartRule ==
    (Built /\ Len(targetString) >= 1) =>
        \A i \in 1..Len(states) : \A symbol \in alphabet :
            states[i].progress = Len(targetString) =>
                Entry(states[i], symbol).progress
                    = (IF symbol = targetString[1] THEN 1 ELSE 0)

(***************************************************************************)
(* C4, amended: from a declared state with progress = len(targetString)    *)
(* >= 1 the successor's progress is the length of the longest suffix of    *)
(* targetString followed by the symbol that is a prefix of targetString;   *)
(* it is never below the restart value (1 if the symbol is targetString[0],*)
(* else 0) and exceeds it when targetString overlaps itself.               *)
(***************************************************************************)
FullMatchSuccessorKeepsOverlap ==
    (Built /\ Len(targetString) >= 1) =>
        \A i \in 1..Len(states) : \A symbol \in alphabet :
            states[i].progress = Len(targetString) =>
                /\ Entry(states[i], symbol).progress
                      = LongestSuffixPrefix(Append(targetString, symbol), targetString)
                /\ Entry(states[i], symbol).progress
                      >= (IF symbol = targetString[1] THEN 1 ELSE 0)

FullMatchOverlapWitness ==
    /\ Built
    /\ Len(targetString) >= 2
    /\ \E i \in 1..Len(states) : \E symbol \in alphabet :
          /\ states[i].progress = Len(targetString)
          /\ Entry(states[i], symbol).progress >= 2

(***************************************************************************)
(* C5: from a declared state with progress < len(targetString) the         *)
(* successor's progress is the result of the standard KMP step with the    *)
(* prefix function of targetString.                                        *)
(***************************************************************************)
PartialMatchSuccessorIsKMPStep ==
    Built =>
        \A i \in 1..Len(states) : \A symbol \in alphabet :
            states[i].progress < Len(targetString) =>
                Entry(states[i], symbol).progress
                    = KMPStep(targetString, states[i].progress, symbol)

KMPFallbackWitness ==
    /\ Built
    /\ \E i \in 1..Len(states) : \E symbol \in alphabet :
          /\ states[i].progress >= 1
          /\ states[i].progress < Len(targetString)
          /\ symbol # CharAt(targetString, states[i].progress)
          /\ Fail(targetString, states[i].progress - 1) >= 1
          /\ Entry(states[i], symbol).progress >= 2

(***************************************************************************)
(* C6: while accepts walks an input, the progress of the current state is  *)
(* the length of the longest suffix of the consumed input that is a prefix *)
(* of targetString.                                                        *)
(***************************************************************************)
ProgressIsLongestSuffixPrefix ==
    (Built /\ call \in {"accepts", "returned"}) =>
        currentState.progress = LongestSuffixPrefix(Consumed, targetString)

ProgressOverlapWitness ==
    /\ Built
    /\ call = "accepts"
    /\ Len(targetString) >= 2
    /\ pos > Len(targetString)
    /\ currentState.progress = Len(targetString)
    /\ Walk(SubSeq(input, 1, pos - 1)).progress = Len(targetString)

(***************************************************************************)
(* C7: while accepts walks an input, the count of the current state is the *)
(* number of occurrences of targetChar in the consumed input, capped at    *)
(* requiredCount + 1.                                                      *)
(***************************************************************************)
CountIsSaturatedOccurrences ==
    (Built /\ call \in {"accepts", "returned"}) =>
        currentState.count = Min(CountOcc(Consumed, targetChar), requiredCount + 1)

CountSaturatedWitness ==
    /\ Built
    /\ call = "accepts"
    /\ CountOcc(Consumed, targetChar) > requiredCount + 1
    /\ currentState.count = requiredCount + 1

(***************************************************************************)
(* C8: along every table entry the count grows by one when the symbol is   *)
(* targetChar and the count is at most requiredCount, and is unchanged     *)
(* otherwise; it never decreases and never exceeds requiredCount + 1.      *)
(***************************************************************************)
CountStepRule ==
    Built =>
        \A i \in 1..Len(states) : \A symbol \in alphabet :
            LET next == Entry(states[i], symbol)
            IN  /\ next.count = (IF symbol = targetChar /\ states[i].count <= requiredCount
                                 THEN states[i].count + 1
                                 ELSE states[i].count)
                /\ next.count >= states[i].count
                /\ next.count <= requiredCount + 1

CountStepWitness ==
    /\ Built
    /\ \E i \in 1..Len(states) : \E symbol \in alphabet :
          /\ symbol # targetChar
          /\ states[i].count = requiredCount
          /\ Entry(states[i], targetChar).count = requiredCount + 1
          /\ Entry(states[i], symbol).count = requiredCount

(***************************************************************************)
(* C9: overflow monotonicity: every state reachable along table entries    *)
(* from a declared state with count = requiredCount + 1 has count =        *)
(* requiredCount + 1.                                                      *)
(***************************************************************************)
OverflowMonotone ==
    Built =>
        \A i \in 1..Len(states) :
            states[i].count = requiredCount + 1 =>
                \A r \in ReachFrom({states[i]}) : r.count = requiredCount + 1

OverflowReachWitness ==
    /\ Built
    /\ \E i \in 1..Len(states) :
          /\ states[i].count = requiredCount + 1
          /\ Cardinality(ReachFrom({states[i]})) >= 3

(***************************************************************************)
(* C10: once the walk of a prefix of the input has reached a state with    *)
(* count > requiredCount, accepts returns false, whatever follows.         *)
(***************************************************************************)
NoAcceptAfterOverflow ==
    (Built /\ call = "returned") =>
        ((\E k \in 0..Len(input) : Walk(SubSeq(input, 1, k)).count > requiredCount)
            => result = FALSE)

OverflowThenSuffixWitness ==
    /\ Built
    /\ call = "returned"
    /\ Len(targetString) >= 1
    /\ EndsWith(input, targetString)
    /\ \E k \in 0..(Len(input) - 1) :
          Walk(SubSeq(input, 1, k)).count > requiredCount
    /\ result = FALSE

(***************************************************************************)
(* C11: isAcceptingState is true exactly for the state with progress =     *)
(* len(targetString) and count = requiredCount (also among the pairs just  *)
(* outside the declared space); there is exactly one accepting state and   *)
(* no state with count = requiredCount + 1 is accepting.                   *)
(***************************************************************************)
AcceptingStateIsExact ==
    Built =>
        /\ \A p \in 0..(Len(targetString) + 1) : \A c \in 0..(requiredCount + 2) :
              isAcceptingState([progress |-> p, count |-> c])
                  <=> (p = Len(targetString) /\ c = requiredCount)
        /\ Cardinality({i \in 1..Len(states) : isAcceptingState(states[i])}) = 1
        /\ Cardinality(acceptingStateKeys) = 1
        /\ \A i \in 1..Len(states) :
              states[i].count = requiredCount + 1 => ~isAcceptingState(states[i])

AcceptingStateWitness ==
    /\ Built
    /\ Len(targetString) >= 2
    /\ \E i, j \in 1..Len(states) :
          /\ states[i].progress = Len(targetString)
          /\ states[i].count = requiredCount
          /\ isAcceptingState(states[i])
          /\ states[j].progress = Len(targetString)
          /\ states[j].count = requiredCount + 1
          /\ ~isAcceptingState(states[j])

(***************************************************************************)
(* C12: if the input contains a symbol outside the alphabet, accepts       *)
(* raises InvalidSymbolError carrying the leftmost such symbol and returns *)
(* no boolean; the walk never passes such a symbol.                        *)
(***************************************************************************)
InvalidSymbolRaised ==
    Built =>
        /\ call = "accepts" => InvalidPositions(Consumed) = {}
        /\ call = "returned" => InvalidPositions(input) = {} /\ result \in BOOLEAN
        /\ call = "thrown" =>
              /\ InvalidPositions(input) # {}
              /\ result = <<"InvalidSymbolError", input[FirstInvalid(input)]>>
        /\ (call = "accepts" /\ pos = Len(input)) => InvalidPositions(input) = {}

InvalidSymbolWitness ==
    /\ Built
    /\ call = "thrown"
    /\ pos >= 1
    /\ currentState.count >= 1
    /\ \E j \in (pos + 2)..Len(input) :
          /\ input[j] \notin alphabet
          /\ input[j] # input[pos + 1]
    /\ \E j \in (pos + 2)..Len(input) : input[j] \in alphabet

(***************************************************************************)
(* C13: trace never raises on a symbol outside the alphabet: after the     *)
(* entry for the start state it holds exactly one entry per symbol of the  *)
(* longest prefix of the input over the alphabet, each with the state the  *)
(* table leads to, and nothing for the offending symbol or what follows.   *)
(***************************************************************************)
TraceStopsAtInvalidSymbol ==
    Built =>
        /\ call \in {"thrown", "crashed"} => trace = <<>>
        /\ call = "trace" => InvalidPositions(Consumed) = {} /\ Len(trace) = pos + 1
        /\ call = "traced" =>
              /\ Len(result) = 1 + ValidPrefixLen(input)
              /\ result[1] = [state |-> startState, symbol |-> Undefined]
              /\ \A i \in 1..ValidPrefixLen(input) :
                    /\ result[i + 1].symbol = input[i]
                    /\ result[i + 1].state = Walk(SubSeq(input, 1, i))

TracePartialWitness ==
    /\ Built
    /\ call = "traced"
    /\ ValidPrefixLen(input) >= 1
    /\ ValidPrefixLen(input) + 1 < Len(input)
    /\ \E j \in (ValidPrefixLen(input) + 2)..Len(input) : input[j] \in alphabet
    /\ Len(result) = 1 + ValidPrefixLen(input)

(***************************************************************************)
(* C14, as claimed: the sequence returned by trace(input) has one element  *)
(* per transition taken, hence at most len(input) elements, and is empty   *)
(* for the empty input and for an input whose first symbol is invalid.     *)
(***************************************************************************)
TraceHasOneElementPerTransition ==
    (Built /\ call = "traced") =>
        /\ Len(result) <= Len(input)
        /\ Len(result) = ValidPrefixLen(input)

(***************************************************************************)
(* C15, as claimed: construction with requiredCount < 1 fails and yields   *)
(* no engine.                                                              *)
(***************************************************************************)
InvalidCountRejected ==
    (phase # "new" /\ requiredCount < 1) => phase = "failed"

(***************************************************************************)
(* C16: construction fails exactly when targetChar or some character of    *)
(* targetString is outside the alphabet; every constructed engine has      *)
(* targetChar and all of targetString in the alphabet.                     *)
(***************************************************************************)
ConstructionChecksSymbols ==
    /\ phase # "new" =>
          (phase = "failed" <=>
              \/ targetChar \notin alphabet
              \/ \E i \in 1..Len(targetString) : targetString[i] \notin alphabet)
    /\ phase = "built" =>
          /\ targetChar \in alphabet
          /\ \A i \in 1..Len(targetString) : targetString[i] \in alphabet

TargetStringRejectedWitness ==
    /\ phase = "failed"
    /\ targetChar \in alphabet
    /\ Len(targetString) >= 2
    /\ targetString[1] \in alphabet
    /\ targetString[Len(targetString)] \notin alphabet
    /\ result = "TargetStringSymbolNotInAlphabet"

(***************************************************************************)
(* C17, as claimed: construction with an empty alphabet fails with an      *)
(* EmptyAlphabet error, which is not the error reported when targetChar is *)
(* absent from a non-empty alphabet.                                       *)
(***************************************************************************)
EmptyAlphabetHasOwnError ==
    (phase # "new" /\ alphabet = {}) =>
        /\ phase = "failed"
        /\ result = "EmptyAlphabet"
        /\ result # "TargetCharNotInAlphabet"

(***************************************************************************)
(* C18: when construction fails, the state list, the transition table and  *)
(* the accepting set are still empty, no start state is set, and no call   *)
(* ever runs on the instance.                                              *)
(***************************************************************************)
FailedConstructionBuildsNothing ==
    phase = "failed" =>
        /\ states = <<>>
        /\ DOMAIN transitions = {}
        /\ acceptingStateKeys = {}
        /\ startState = NoState
        /\ call = "idle"
        /\ result \in {"TargetCharNotInAlphabet", "TargetStringSymbolNotInAlphabet"}

FailedLateCheckWitness ==
    /\ phase = "failed"
    /\ result = "TargetStringSymbolNotInAlphabet"
    /\ Len(targetString) = MaxTarget
    /\ \A i \in 1..(Len(targetString) - 1) : targetString[i] \in alphabet
    /\ states = <<>>


(***************************************************************************)
(* C20  Evaluation is read-only, in both revisions of the class: no step   *)
(* of an accepts or trace call on a built engine, whether it returns or    *)
(* raises InvalidSymbolError, and no hand-over between two calls, changes  *)
(* the state list, the start state, the transition table, the accepting    *)
(* set or the suffix-buffer map.  In the suffix-buffer revision the        *)
(* conditional write of accepts never executes, because construction has   *)
(* recorded a buffer for the start state and for every successor.          *)
(***************************************************************************)
EvaluationIsReadOnly ==
    [][(phase = "built" \/ phase = "builtBuffer") =>
          (engine' = engine /\ suffixBuffer' = suffixBuffer)]_vars

\* an accepts call of the suffix-buffer revision has returned after entering
\* a state whose recorded buffer differs from the buffer of this walk
BufferGuardWitness ==
    /\ phase = "builtBuffer"
    /\ call = "returned"
    /\ pos >= 2
    /\ stateToKey(currentState) \in DOMAIN suffixBuffer
    /\ suffixBuffer[stateToKey(currentState)] # currentBuffer


(***************************************************************************)
(* C23  For every valid configuration the list getStates returns holds     *)
(* exactly (len(targetString)+1) * (requiredCount+2) states, pairwise      *)
(* distinct: every pair (progress, count) with 0 <= progress <=            *)
(* len(targetString) and 0 <= count <= requiredCount+1, the start state    *)
(* (0, 0) among them.                                                      *)
(***************************************************************************)
StateListIsFullGrid ==
    (call = "got" /\ result.method = "getStates" /\ ValidConfig) =>
        LET list == result.value
        IN  /\ Len(list) = (Len(targetString) + 1) * (requiredCount + 2)
            /\ \A i, j \in 1..Len(list) : i # j => list[i] # list[j]
            /\ Range(list) = {[progress |-> p, count |-> c] :
                                 p \in 0..Len(targetString),
                                 c \in 0..(requiredCount + 1)}
            /\ getStartState = [progress |-> 0, count |-> 0]
            /\ getStartState \in Range(list)

StateListLargestWitness ==
    /\ call = "got"
    /\ result.method = "getStates"
    /\ ValidConfig
    /\ Len(result.value) = (MaxTarget + 1) * (MaxCount + 2)

(***************************************************************************)
(* C24  getStateNumber returns, for every declared state (progress,        *)
(* count), its index in construction order, progress * (requiredCount + 2) *)
(* + count; distinct declared states have distinct numbers and the start   *)
(* state has number 0.                                                     *)
(***************************************************************************)
StateNumberIsConstructionIndex ==
    (call = "got" /\ result.method = "getStateNumber") =>
        /\ result.argument \in Range(states) =>
              /\ result.value =
                    result.argument.progress * (requiredCount + 2) + result.argument.count
              /\ states[result.value + 1] = result.argument
        /\ \A i, j \in 1..Len(states) :
              i # j => getStateNumber(states[i]) # getStateNumber(states[j])
        /\ getStateNumber(getStartState) = 0

StateNumberLastWitness ==
    /\ call = "got"
    /\ result.method = "getStateNumber"
    /\ Len(targetString) >= 2
    /\ result.argument = [progress |-> Len(targetString), count |-> requiredCount + 1]
    /\ result.value = Len(states) - 1

(***************************************************************************)
(* C25  getTransitionsList returns the whole table: for every declared     *)
(* state and every alphabet symbol exactly one edge (from, symbol, to),    *)
(* whose 'from', decoded from the key by keyToState, is that state and     *)
(* whose 'to' is the table entry accepts uses for the pair; there is no    *)
(* other edge.  keyToState undoes stateToKey, for numbers of two digits    *)
(* too.                                                                    *)
(***************************************************************************)
TransitionsListIsWholeTable ==
    (call = "got" /\ result.method = "getTransitionsList") =>
        LET list == result.value
        IN  /\ Len(list) = Len(states) * Cardinality(alphabet)
            /\ \A i \in 1..Len(states) : \A a \in alphabet :
                  LET hits == {k \in 1..Len(list) : /\ list[k].from = states[i]
                                                    /\ list[k].symbol = a}
                  IN  /\ Cardinality(hits) = 1
                      /\ \A k \in hits : list[k].to = Entry(states[i], a)
            /\ \A p, c \in 0..(9 + MaxTarget) :
                  keyToState(stateToKey([progress |-> p, count |-> c]))
                      = [progress |-> p, count |-> c]

TransitionsListFullWitness ==
    /\ call = "got"
    /\ result.method = "getTransitionsList"
    /\ Cardinality(alphabet) = 2
    /\ Len(result.value) = (MaxTarget + 1) * (MaxCount + 2) * 2
    /\ \E k \in 1..Len(result.value) :
          /\ result.value[k].from.progress = MaxTarget
          /\ result.value[k].to.progress < MaxTarget


(***************************************************************************)
(* C26  With an empty targetString (valid configuration) every table       *)
(* entry and every state a walk enters has progress 0, and accepts is      *)
(* true exactly for the inputs over the alphabet in which targetChar       *)
(* occurs requiredCount times: the suffix condition rejects nothing.       *)
(***************************************************************************)
EmptyTargetCountsOnly ==
    (Built /\ targetString = <<>>) =>
        /\ call = "idle" =>
              \A i \in 1..Len(states) : \A a \in alphabet :
                  Entry(states[i], a).progress = 0
        /\ call \in {"accepts", "returned", "thrown", "trace", "traced"} =>
              currentState.progress = 0
        /\ call = "returned" =>
              result = (CountOcc(input, targetChar) = requiredCount)

EmptyTargetAcceptWitness ==
    /\ Built
    /\ targetString = <<>>
    /\ call = "returned"
    /\ result = TRUE
    /\ Len(input) = MaxInput
    /\ input[Len(input)] # targetChar


(***************************************************************************)
(* C28  For the alphabet {a, b}, targetString "ab", targetChar "a" and     *)
(* requiredCount 2: accepts("baab") is true, accepts("aabab") is false     *)
(* and accepts("ba") is false.                                             *)
(***************************************************************************)
ScenarioResults ==
    (ScenarioConfig /\ call = "returned") =>
        /\ input = <<"b", "a", "a", "b">> => result = TRUE
        /\ input = <<"a", "a", "b", "a", "b">> => result = FALSE
        /\ input = <<"b", "a">> => result = FALSE

ScenarioOverflowWitness ==
    /\ ScenarioConfig
    /\ call = "returned"
    /\ input = <<"a", "a", "b", "a", "b">>
    /\ currentState = [progress |-> 2, count |-> 3]
    /\ result = FALSE


(***************************************************************************)
(* C29  trace follows the walk of accepts: its first entry is the start    *)
(* state, every later entry holds the next input symbol and the table      *)
(* successor of the previous entry's state under that symbol, and accepts  *)
(* returns whether the state this walk ends in is accepting; so for an     *)
(* input over the alphabet the last state of the trace is accepting iff    *)
(* accepts(input) is true.                                                 *)
(***************************************************************************)
TraceFollowsAcceptsWalk ==
    /\ (phase = "built" /\ call = "returned") =>
          result = isAcceptingState(Walk(input))
    /\ (phase = "built" /\ call = "traced") =>
          /\ result[1].state = startState
          /\ \A i \in 2..Len(result) :
                /\ result[i].symbol = input[i - 1]
                /\ result[i].state = Entry(result[i - 1].state, result[i].symbol)
          /\ InvalidPositions(input) = {} =>
                /\ Len(result) = Len(input) + 1
                /\ isAcceptingState(result[Len(result)].state)
                      = isAcceptingState(Walk(input))

TraceEndsAcceptingWitness ==
    /\ Built
    /\ call = "traced"
    /\ Len(input) = MaxInput
    /\ Len(result) = MaxInput + 1
    /\ isAcceptingState(result[Len(result)].state)
    /\ \E i \in 2..Len(result) : result[i].state.progress < result[i - 1].state.progress


(***************************************************************************)
(* C30  The two revisions of the class accept the same inputs: for every   *)
(* valid configuration and every input over the alphabet, the walk of the  *)
(* suffix-buffer revision is, after every symbol, in the (progress, count) *)
(* state the KMP-style revision is in, and its accepts returns what the    *)
(* KMP-style revision returns; the two tables agree on every state that    *)
(* can be reached from the start state, so this holds for inputs of any    *)
(* length.                                                                 *)
(***************************************************************************)
RevisionsWalkAlike ==
    (phase = "builtBuffer" /\ ValidConfig) =>
        /\ call \in {"acceptsBuffer", "traceBuffer", "returned", "thrown", "traced"} =>
              currentState = KMPWalk(Consumed)
        /\ call = "returned" =>
              result = (stateToKey(KMPWalk(input)) \in buildAcceptingStates(buildStates))
        /\ call = "idle" =>
              \A state \in ReachFrom({startState}) : \A symbol \in alphabet :
                  Entry(state, symbol) = calculateNextState(state, symbol)

RevisionsOverlapWitness ==
    /\ phase = "builtBuffer"
    /\ ValidConfig
    /\ call = "returned"
    /\ result = TRUE
    /\ Len(input) = MaxInput
    /\ Len(targetString) >= 2
    /\ ~EndsWith(SubSeq(input, 1, Len(targetString)), targetString)
    /\ \E i \in 2..Len(targetString) : targetString[i] = targetString[1]


(***************************************************************************)
(* C27  accepts and trace terminate on every finite input after at most    *)
(* len(input) table lookups (pos counts them), exactly len(input) when     *)
(* every symbol is in the alphabet; construction terminates (for every     *)
(* configuration, valid or not).                                           *)
(***************************************************************************)
EvaluationTerminates ==
    /\ (phase = "new" \/ call \in {"accepts", "trace"})
          ~> (phase \in {"built", "failed"} /\ call \in {"idle", "returned", "thrown", "traced"})
    /\ [](pos <= Len(input))
    /\ [](call \in {"returned", "thrown", "traced"} => pos = ValidPrefixLen(input))

TerminatedLongWalkWitness ==
    /\ call = "returned"
    /\ Len(input) = MaxInput - 1
    /\ pos = Len(input)
    /\ Len(targetString) = MaxTarget


(***************************************************************************)
(* C21  Values handed out by the engine cannot be used to change it:       *)
(* whatever a caller writes to the list returned by getStates or to a      *)
(* state object obtained from getStates, getStartState, trace or           *)
(* getTransitionsList, getStates and getStateNumber keep returning what    *)
(* they returned for the engine as constructed, and accepts and trace keep *)
(* walking and answering as on the engine as constructed.                  *)
(***************************************************************************)
CallerWritesChangeNothing ==
    phase = "built" =>
        /\ getStates = buildStates
        /\ \A i \in 1..Len(buildStates) : getStateNumber(buildStates[i]) = i - 1
        /\ call \in {"accepts", "trace"} => currentState = KMPWalk(Consumed)
        /\ call = "returned" =>
              result = (stateToKey(KMPWalk(input)) \in buildAcceptingStates(buildStates))
        /\ call # "crashed"


(***************************************************************************)
(* C22  Any interleaving of the steps of several accepts / trace calls on  *)
(* one shared engine gives each call the result it produces when run       *)
(* alone: each walk moves only its own cursor along the table (its state   *)
(* is the table walk of the symbols it has consumed, its result the one    *)
(* of that walk), two calls of the same method on the same input end with  *)
(* the same result, and no step of a call writes a field of the engine.    *)
(***************************************************************************)
SharedWalksIndependent ==
    /\ [](\A e \in Walkers :
            LET w == walks[e]
            IN  /\ w.call \in {"accepts", "trace", "returned", "thrown", "traced"} =>
                      /\ w.pos <= ValidPrefixLen(w.input)
                      /\ w.currentState = Walk(SubSeq(w.input, 1, w.pos))
                /\ w.call = "returned" =>
                      /\ InvalidPositions(w.input) = {}
                      /\ w.result = isAcceptingState(Walk(w.input))
                /\ w.call = "thrown" =>
                      /\ InvalidPositions(w.input) # {}
                      /\ w.result = <<"InvalidSymbolError", w.input[FirstInvalid(w.input)]>>
                /\ w.call = "traced" =>
                      /\ Len(w.result) = 1 + ValidPrefixLen(w.input)
                      /\ \A i \in 1..Len(w.result) :
                            w.result[i].state = Walk(SubSeq(w.input, 1, i - 1))
                /\ w.call # "crashed"
                /\ \A f \in Walkers :
                      (/\ w.call \in {"returned", "thrown", "traced"}
                       /\ walks[f].call = w.call
                       /\ walks[f].input = w.input) => walks[f].result = w.result)
    /\ [][(phase = "built" \/ phase = "builtBuffer") =>
             (engine' = engine /\ suffixBuffer' = suffixBuffer)]_vars

\* both calls are in the middle of their loops, on different inputs and in
\* different states
InterleavedWalksWitness ==
    /\ walks[1].call = "accepts"
    /\ walks[2].call = "trace"
    /\ walks[1].pos = 1
    /\ walks[2].pos = 1
    /\ Len(walks[1].input) = MaxInput - 2
    /\ Len(walks[2].input) = MaxInput - 2
    /\ walks[1].currentState # walks[2].currentState

(***************************************************************************)
(* C31  Every configuration that passes validateLanguage, and is therefore *)
(* stored by LanguageForm.handleSubmit, is one the constructor accepts:    *)
(* the results page never fails to construct the engine from a stored      *)
(* language that validateLanguage lets through.                            *)
(***************************************************************************)
ValidatedLanguageConstructs ==
    (location = "/results" /\ language # Null /\ validateLanguage(language) = "none")
        => phase # "failed"

(***************************************************************************)
(* C32  In every reachable state in which the store holds a language and a *)
(* chain, the chain was stored for that language: no other language has    *)
(* been stored since, so the results page never shows a chain of an        *)
(* earlier submission with the language of a later one.                    *)
(***************************************************************************)
ChainStoredWithLanguage ==
    (language # Null /\ chain # NullString) => chainIsForLanguage

\* the messages handleSubmit shows when it ends with an error
SubmitErrors ==
    {"EMPTY_ALPHABET", "SYMBOL_NOT_IN_ALPHABET", "AlphabetMustBeNonEmptyArray",
     "SuffixMustBeString", "SymbolMustBeInAlphabet", "CountMustBeIntegerAtLeastOne",
     "EMPTY_CHAIN"}

(***************************************************************************)
(* C33  A step of LanguageForm.handleSubmit that ends by showing an error  *)
(* (empty alphabet, symbol not in the alphabet, validateLanguage failure,  *)
(* empty chain after trimming) leaves the store's language and chain as    *)
(* they were and does not navigate.                                        *)
(***************************************************************************)
SubmitErrorChangesNothing ==
    [][(location = "/" /\ shown' \in SubmitErrors) =>
          (language' = language /\ chain' = chain /\ location' = location)]_vars

(***************************************************************************)
(* C34  The results page is on screen only in states where the store holds *)
(* a language that is not null and a chain that is not empty: a navigation *)
(* to /results before both are set ends on another route.                  *)
(***************************************************************************)
ResultsPageNeedsLanguageAndChain ==
    location = "/results" =>
        (language # Null /\ chain # NullString /\ chain # <<>>)

\* the results page rendered after a navigation that passed the guard: the
\* language was stored after the chain, so no submission led here
GuardedResultsWitness ==
    /\ location = "/results"
    /\ checkResult # Null
    /\ ~chainIsForLanguage
    /\ Len(chain) = MaxInput - 2

(***************************************************************************)
(* C35  In the step view, after any sequence of next step, previous step,  *)
(* reset and complete, 0 <= currentStep <= Len(traceSteps) - 1, so the     *)
(* step shown is an entry of the trace; next step at the last entry and    *)
(* previous step at entry 0 leave currentStep as it is.                    *)
(***************************************************************************)
StepStaysInTrace ==
    /\ [](stepControls => (currentStep >= 0 /\ currentStep <= Len(traceSteps) - 1))
    /\ [][(stepControls /\ HandleNextStep /\ currentStep = Len(traceSteps) - 1)
             => currentStep' = currentStep]_vars
    /\ [][(stepControls /\ HandlePrevStep /\ currentStep = 0)
             => currentStep' = currentStep]_vars

\* the step view stands at the last entry of the longest trace
LastStepWitness ==
    /\ stepControls
    /\ Len(traceSteps) = MaxInput - 1
    /\ currentStep = Len(traceSteps) - 1

(***************************************************************************)
(* C36  Whenever accepts(chain) returns false for a chain over the         *)
(* alphabet, the final state the rejection reason is composed from is the  *)
(* state the walk ended in, it differs from the target in progress or in   *)
(* count, and the reason names one of the two; the generic reason is not   *)
(* shown.                                                                  *)
(***************************************************************************)
RejectionReasonFromWalkEnd ==
    (/\ location = "/results"
     /\ checkResult # Null
     /\ ~checkResult.accepted
     /\ InvalidPositions(chain) = {})
        => /\ checkResult.finalState = Walk(chain)
           /\ \/ checkResult.finalState.progress # Len(targetString)
              \/ checkResult.finalState.count # requiredCount
           /\ checkResult.reason # <<>>
           /\ \A i \in 1..Len(checkResult.reason) :
                 checkResult.reason[i].kind \in {"SuffixNotFound", "WrongCount"}

====
